---- MODULE Spec2Model ----
(***************************************************************************)
(* install-fedora-zfsbootmenu.py as a state machine.                       *)
(*                                                                         *)
(* The script is one sequential run of main().  Every function of the      *)
(* script that issues Execution Gateway calls is an operator that yields   *)
(* the calls it makes, in order; the action main starts the next statement *)
(* of main() and one action per gateway primitive (sys, sys_output, mkdir, *)
(* cat_to_file, ...) executes the call at the head of the queue: it logs,  *)
(* and in live mode performs the side effect, which may raise.             *)
(*                                                                         *)
(* A Python string is a sequence of tokens (the pieces of the f-string     *)
(* that builds it); "\n" is a token of its own.  An argument vector is a   *)
(* sequence of strings.                                                    *)
(***************************************************************************)
EXTENDS Integers, Sequences, FiniteSets, TLC

\* ------------------------------------------------------------------------
\* Bounds of the configurations explored
\* ------------------------------------------------------------------------
MaxDisks == 2

MaxDataPools == 1

MaxUsers == 2

\* data pools of a configuration whose data pools differ in name and disks
MaxNamedDataPools == 2

\* ------------------------------------------------------------------------
\* Sequence helpers
\* ------------------------------------------------------------------------
Range(s) == {s[i] : i \in 1..Len(s)}

RECURSIVE Flatten(_)
Flatten(ss) == IF ss = <<>> THEN <<>> ELSE Head(ss) \o Flatten(Tail(ss))

SeqsUpTo(S, n) == UNION {[1..k -> S] : k \in 0..n}

\* str.splitlines() on a token string: the lines between "\n" tokens; a
\* trailing "\n" does not open a further line.
RECURSIVE splitlines(_)
splitlines(s) ==
    IF s = <<>> THEN <<>>
    ELSE IF \E i \in 1..Len(s) : s[i] = "\n"
         THEN LET i == CHOOSE k \in 1..Len(s) :
                         s[k] = "\n" /\ \A j \in 1..(k - 1) : s[j] # "\n"
              IN  <<SubSeq(s, 1, i - 1)>> \o splitlines(SubSeq(s, i + 1, Len(s)))
         ELSE <<s>>

\* ------------------------------------------------------------------------
\* Configuration (dataclasses ZfsPool, User, Config)
\* ------------------------------------------------------------------------
ZfsPool(name, disks, mountpoint, kind, password, pool_properties, file_system_properties) ==
    [name |-> name, disks |-> disks, mountpoint |-> mountpoint, kind |-> kind,
     password |-> password, pool_properties |-> pool_properties,
     file_system_properties |-> file_system_properties]

User(name, comment, password, wheel) ==
    [name |-> name, comment |-> comment, password |-> password, wheel |-> wheel]

Config(root_pool, data_pools, swap_size, root_password, users, locale, zero_disks, dry_mode) ==
    [root_pool |-> root_pool, data_pools |-> data_pools, swap_size |-> swap_size,
     root_password |-> root_password, users |-> users, locale |-> locale,
     zero_disks |-> zero_disks, dry_mode |-> dry_mode]

NEW_SYSTEM_ROOT == <<"/rpool">>

OLD_ROOT == <<"/">>


\* ------------------------------------------------------------------------
\* Configurations explored
\* ------------------------------------------------------------------------
Kinds == {"single", "mirror"}

Passwords == {"", "change this pass"}

PoolNames == {"rpool", "rdata"}

Disks == {"sda", "sdb"}

\* The disks a pool of the explored runs draws from, in the order it lists
\* them: the root pool the first ones, a data pool the ones after them.
RootDisks == <<"sda", "sdb", "sdc">>

DataDisks == <<"sdd", "sde", "sdf">>

Prefixes(s, n) == {SubSeq(s, 1, k) : k \in 0..n}

\* alice has a password, a comment and is in wheel; bob has none of them.
UserList ==
    <<User("alice", "Alice", "change this pass", TRUE), User("bob", "", "", FALSE),
      User("carol", "Carol", "", TRUE)>>

Users == {UserList[1], UserList[2]}

SwapSizes == {"", "1G"}

\* "en_US.UTF-8" and a locale without an underscore
Locales == {<<"en", "_", "US.UTF-8">>, <<"C.UTF-8">>}

\* The root pool and a data pool with the mountpoint and the properties of
\* the script's own CONFIG (a property is one "key=value" token).
RootPool(disks, kind, password) ==
    ZfsPool("rpool", disks, <<"none">>, kind, password,
            <<"ashift=13", "autotrim=on">>, <<"acltype=posixacl", "compression=zstd">>)

DataPool(name, disks, kind, password) ==
    ZfsPool(name, disks, <<>>, kind, password, <<"ashift=12">>, <<"xattr=sa">>)

\* Configurations of the runs of main(): every combination of pool shapes
\* (valid or not), swap, users, locale and the two flags.  Disk and user
\* names are only ever compared, so pools and users take the first names of
\* fixed lists.
RunDataPools ==
    SeqsUpTo({DataPool("rdata", dd, dk, dp) :
                 dd \in Prefixes(DataDisks, MaxDisks), dk \in Kinds,
                 dp \in Passwords}, MaxDataPools)

IsRunConfig(c) ==
    \E rd \in Prefixes(RootDisks, MaxDisks), rk \in Kinds, rp \in Passwords,
       dps \in RunDataPools, sw \in SwapSizes, us \in Prefixes(UserList, MaxUsers),
       lo \in Locales, z \in BOOLEAN, d \in BOOLEAN :
        c = Config(RootPool(rd, rk, rp), dps, sw, "", us, lo, z, d)

\* Configurations for the validation: any disk list for a data pool and any
\* user list, repetitions included, in both modes; the other fields at their
\* dataclass defaults.
CheckDataPools ==
    SeqsUpTo({DataPool(n, dd, dk, "") :
                 n \in PoolNames, dd \in SeqsUpTo(Disks, MaxDisks), dk \in Kinds},
             MaxDataPools)

IsCheckConfig(c) ==
    \E rd \in Prefixes(RootDisks, MaxDisks), rk \in Kinds, dps \in CheckDataPools,
       us \in SeqsUpTo(Users, MaxUsers), d \in BOOLEAN :
        c = Config(RootPool(rd, rk, ""), dps, "1G", "", us,
                   <<"en", "_", "US.UTF-8">>, FALSE, d)

\* Configurations with several data pools: the k-th data pool has the k-th
\* name and takes its disks from the k-th list, so that the pools share
\* neither a name nor a disk; alice is the one user.
NamedDataPoolNames == <<"rdata", "tank", "vault">>

NamedDataPoolDisks ==
    <<<<"sdd", "sde", "sdf">>, <<"sdg", "sdh", "sdi">>, <<"sdj", "sdk", "sdl">>>>

NamedDataPools ==
    {dps \in SeqsUpTo(UNION {{DataPool(NamedDataPoolNames[k], dd, dk, "") :
                                 dd \in Prefixes(NamedDataPoolDisks[k], MaxDisks),
                                 dk \in Kinds} : k \in 1..MaxNamedDataPools},
                      MaxNamedDataPools) :
        \A k \in 1..Len(dps) : dps[k].name = NamedDataPoolNames[k]}

IsNamedPoolsConfig(c) ==
    \E rd \in Prefixes(RootDisks, MaxDisks), rk \in Kinds, rp \in Passwords,
       dps \in NamedDataPools, sw \in SwapSizes, d \in BOOLEAN :
        c = Config(RootPool(rd, rk, rp), dps, sw, "", SubSeq(UserList, 1, 1),
                   <<"en", "_", "US.UTF-8">>, FALSE, d)

\* ------------------------------------------------------------------------
\* State
\* ------------------------------------------------------------------------
VARIABLES
    CONFIG,          \* the module-level CONFIG, never assigned after import
    pc,              \* the next statement of main(), or "done" / "aborted"
    pending,         \* gateway calls of the running statement not yet made
    log,             \* what LOGGER.info has written
    effects,         \* the OS operations performed, with their outcome
    last_call,       \* how the last operation performed on the host ended
    exc,             \* the exception propagating, "none" if none
    root,            \* the root directory of the process
    oldroot_fd,      \* chroot's handle to the old root: "none", "open", "closed"
    in_chroot,       \* inside the try block of chroot()
    version_id,      \* main's local version_id (0 before it is assigned)
    pool_key_files,  \* main's local pool_key_files
    efi_disk_uuids,  \* main's local efi_disk_uuids
    zfs_properties_text,  \* what write_zfs_mount_generator_cache read at the script's path
    host,            \* what the host's programs print: "own" or "placeholders"
    transcript       \* the log of an earlier dry run of the script, else <<>>

vars == <<CONFIG, pc, pending, log, effects, last_call, exc, root, oldroot_fd, in_chroot,
          version_id, pool_key_files, efi_disk_uuids, zfs_properties_text, host, transcript>>

CONFIG_POOLS == <<CONFIG.root_pool>> \o CONFIG.data_pools

\* ------------------------------------------------------------------------
\* check_config_for_errors
\* ------------------------------------------------------------------------
\* check_disks without seen_disks.add(disk)
RECURSIVE check_disks_never_added(_, _)
check_disks_never_added(disks, seen_disks) ==
    IF disks = <<>> THEN [error |-> "none", seen_disks |-> seen_disks]
    ELSE IF Head(disks) \in seen_disks
         THEN [error |-> "disk configured multiple times",
               seen_disks |-> seen_disks]
         ELSE check_disks_never_added(Tail(disks), seen_disks)

\* for disk in pool.disks: the first disk already seen raises
RECURSIVE check_disks(_, _)
check_disks(disks, seen_disks) ==
    IF disks = <<>> THEN [error |-> "none", seen_disks |-> seen_disks]
    ELSE IF Head(disks) \in seen_disks
         THEN [error |-> "disk configured multiple times",
               seen_disks |-> seen_disks]
         ELSE check_disks(Tail(disks), seen_disks \cup {Head(disks)})

\* for pool in CONFIG_POOLS
RECURSIVE check_pools(_, _, _)
check_pools(pools, seen_pool_names, seen_disks) ==
    IF pools = <<>> THEN "none"
    ELSE LET pool == Head(pools) IN
         IF pool.name \in seen_pool_names
         THEN "name configured for multiple pools"
         ELSE IF pool.disks = <<>>
         THEN "pool configured without disks"
         ELSE IF pool.kind = "single" /\ Len(pool.disks) > 1
         THEN "kind single configured with more than one disk"
         ELSE IF pool.kind # "single" /\ Len(pool.disks) = 1
         THEN "kind configured with only one disk"
         ELSE LET r == check_disks(pool.disks, seen_disks) IN
              IF r.error # "none" THEN r.error
              ELSE check_pools(Tail(pools), seen_pool_names \cup {pool.name},
                               r.seen_disks)

\* for user in CONFIG.users
RECURSIVE check_users(_, _)
check_users(users, seen_user_names) ==
    IF users = <<>> THEN "none"
    ELSE IF Head(users).name \in seen_user_names
         THEN "name configured for multiple users"
         ELSE check_users(Tail(users), seen_user_names \cup {Head(users).name})

\* The exception check_config_for_errors raises, "none" if it returns.
check_config_for_errors ==
    LET e == check_pools(CONFIG_POOLS, {}, {}) IN
    IF e # "none" THEN e ELSE check_users(CONFIG.users, {})

\* ------------------------------------------------------------------------
\* Gateway calls
\* ------------------------------------------------------------------------
\* One string per token: <<"zpool", "create">> becomes <<<<"zpool">>, <<"create">>>>
Words(tokens) == [i \in 1..Len(tokens) |-> <<tokens[i]>>]

\* A call of a gateway primitive as the caller writes it.  raw is what the
\* external program prints when the call is made in live mode, stat the
\* mode argument of chmod, fn the function the call is made from.
Call(prim, args) ==
    [prim |-> prim, args |-> args, ignore_exit_code |-> TRUE, contents |-> <<>>,
     dry_mode_output |-> <<>>, raw |-> <<>>, fn |-> ""]

call_sys(args) == Call("sys", args)

call_sys_output(args, dry_mode_output, raw) ==
    [Call("sys_output", args) EXCEPT !.dry_mode_output = dry_mode_output,
                                     !.raw = raw]

call_cat_to_file(file, contents) ==
    [Call("cat_to_file", <<file>>) EXCEPT !.contents = contents]

\* ------------------------------------------------------------------------
\* Bash primitives that only build an argument vector
\* ------------------------------------------------------------------------
\* dnf_install(*args, installroot=None, releasever=None); <<>> and 0 are None
dnf_install(args, installroot, releasever) ==
    <<call_sys(Words(<<"dnf", "install", "--assumeyes">>)
               \o (IF installroot # <<>>
                   THEN <<<<"--installroot=">> \o installroot>> ELSE <<>>)
               \o (IF releasever # 0
                   THEN <<<<"--releasever=", ToString(releasever)>>>> ELSE <<>>)
               \o args)>>

Min(a, b) == IF a < b THEN a ELSE b

zfs_release_rpm(version) ==
    <<"https://zfsonlinux.org/fedora/zfs-release-2-2.fc",
      ToString(Min(version, 37)), ".noarch.rpm">>

\* key_file = Path(f"/etc/zfs/{pool.name}.key")
zpool_key_file(pool) == <<"/etc/zfs/", pool.name, ".key">>

\* zpool_create with pool.kind appended before pool.name
zpool_create_kind_before_name(pool, altroot, partition) ==
    LET key_file == IF pool.password # "" THEN zpool_key_file(pool) ELSE <<>>
    IN  (IF pool.password # ""
         THEN <<call_cat_to_file(key_file, <<pool.password, "\n">>),
                Call("chmod", <<<<"0">>, key_file>>)>>
         ELSE <<>>)
        \o <<call_sys(
               Words(<<"zpool", "create", "-f">>)
               \o Flatten([i \in 1..Len(pool.pool_properties) |->
                              Words(<<"-o", pool.pool_properties[i]>>)])
               \o Flatten([i \in 1..Len(pool.file_system_properties) |->
                              Words(<<"-O", pool.file_system_properties[i]>>)])
               \o (IF key_file # <<>>
                   THEN <<<<"-O">>, <<"encryption=aes-256-gcm">>,
                          <<"-O">>, <<"keyformat=passphrase">>,
                          <<"-O">>, <<"keylocation=file://">> \o key_file>>
                   ELSE <<>>)
               \o (IF pool.mountpoint # <<>>
                   THEN <<<<"-m">>, pool.mountpoint>> ELSE <<>>)
               \o (IF altroot # <<>> THEN <<<<"-R">>, altroot>> ELSE <<>>)
               \o (IF pool.kind # "single" THEN <<<<pool.kind>>>> ELSE <<>>)
               \o <<<<pool.name>>>>
               \o [i \in 1..Len(pool.disks) |-> <<pool.disks[i]>> \o partition])>>

\* zpool_create with the key file written after the pool is created
zpool_create_key_file_last(pool, altroot, partition) ==
    LET key_file == IF pool.password # "" THEN zpool_key_file(pool) ELSE <<>>
    IN  <<call_sys(
               Words(<<"zpool", "create", "-f">>)
               \o Flatten([i \in 1..Len(pool.pool_properties) |->
                              Words(<<"-o", pool.pool_properties[i]>>)])
               \o Flatten([i \in 1..Len(pool.file_system_properties) |->
                              Words(<<"-O", pool.file_system_properties[i]>>)])
               \o (IF key_file # <<>>
                   THEN <<<<"-O">>, <<"encryption=aes-256-gcm">>,
                          <<"-O">>, <<"keyformat=passphrase">>,
                          <<"-O">>, <<"keylocation=file://">> \o key_file>>
                   ELSE <<>>)
               \o (IF pool.mountpoint # <<>>
                   THEN <<<<"-m">>, pool.mountpoint>> ELSE <<>>)
               \o (IF altroot # <<>> THEN <<<<"-R">>, altroot>> ELSE <<>>)
               \o <<<<pool.name>>>>
               \o (IF pool.kind # "single" THEN <<<<pool.kind>>>> ELSE <<>>)
               \o [i \in 1..Len(pool.disks) |-> <<pool.disks[i]>> \o partition])>>
        \o (IF pool.password # ""
            THEN <<call_cat_to_file(key_file, <<pool.password, "\n">>),
                   Call("chmod", <<<<"0">>, key_file>>)>>
            ELSE <<>>)

\* zpool_create(pool, altroot=None, partition=""): the key file, then the pool
zpool_create(pool, altroot, partition) ==
    LET key_file == IF pool.password # "" THEN zpool_key_file(pool) ELSE <<>>
    IN  (IF pool.password # ""
         THEN <<call_cat_to_file(key_file, <<pool.password, "\n">>),
                Call("chmod", <<<<"0">>, key_file>>)>>
         ELSE <<>>)
        \o <<call_sys(
               Words(<<"zpool", "create", "-f">>)
               \o Flatten([i \in 1..Len(pool.pool_properties) |->
                              Words(<<"-o", pool.pool_properties[i]>>)])
               \o Flatten([i \in 1..Len(pool.file_system_properties) |->
                              Words(<<"-O", pool.file_system_properties[i]>>)])
               \o (IF key_file # <<>>
                   THEN <<<<"-O">>, <<"encryption=aes-256-gcm">>,
                          <<"-O">>, <<"keyformat=passphrase">>,
                          <<"-O">>, <<"keylocation=file://">> \o key_file>>
                   ELSE <<>>)
               \o (IF pool.mountpoint # <<>>
                   THEN <<<<"-m">>, pool.mountpoint>> ELSE <<>>)
               \o (IF altroot # <<>> THEN <<<<"-R">>, altroot>> ELSE <<>>)
               \o <<<<pool.name>>>>
               \o (IF pool.kind # "single" THEN <<<<pool.kind>>>> ELSE <<>>)
               \o [i \in 1..Len(pool.disks) |-> <<pool.disks[i]>> \o partition])>>

\* the value zpool_create returns: key_file or None (<<>>)
zpool_create_result(pool) ==
    IF pool.password # "" THEN zpool_key_file(pool) ELSE <<>>

\* zfs_create(pool, filesystem, properties)
zfs_create(pool, filesystem, properties) ==
    <<call_sys(Words(<<"zfs", "create">>)
               \o Flatten([i \in 1..Len(properties) |->
                              Words(<<"-o", properties[i]>>)])
               \o <<<<pool.name, "/">> \o filesystem>>)>>

\* passwd(user_name, password, lock_if_empty=True)
passwd(user_name, password, lock_if_empty) ==
    IF password # ""
    THEN <<Call("passwd", Words(<<user_name, "--stdin">>))>>
    ELSE IF lock_if_empty
         THEN <<call_sys(Words(<<"passwd", "--lock", "root">>))>>
         ELSE <<call_sys(Words(<<"passwd", user_name, "--delete">>))>>

\* ------------------------------------------------------------------------
\* What the host answers in live mode
\* ------------------------------------------------------------------------
\* stdout of: source /etc/os-release; echo "$VERSION_ID"
VersionOutputs == {<<"38", "\n">>}

\* int(): the releases the outputs above name
int(s) == IF s = <<"36">> THEN 36 ELSE IF s = <<"38">> THEN 38 ELSE 0

\* random.choices(ascii_lowercase + digits, k=6)
RandomSuffixes == {"k3x9qa"}

\* stdout of blkid --match-tag UUID --output value for the EFI partition of
\* a disk: every partition has a UUID of its own
BlkidOutput(disk) == <<"UUID-", disk, "\n">>

\* stdout of rpm --query kernel: one line per installed kernel
RpmOutputs ==
    {<<"kernel-", "6.0.7-301.fc37.x86_64", "\n",
       "kernel-", "6.1.5-200.fc37.x86_64", "\n">>}

\* /etc/zfs/zed.d/history_event-zfs-list-cacher.sh: absent, or its lines
ScriptTexts ==
    {[exists |-> FALSE, lines |-> <<>>],
     [exists |-> TRUE, lines |-> <<<<"#!/bin/sh">>, <<"zed_exit_if_ignoring_this_event">>>>],
     [exists |-> TRUE, lines |-> <<<<"#!/bin/sh">>, <<"PROPS=\"", "\"">>>>],
     [exists |-> TRUE,
      lines |-> <<<<"#!/bin/sh">>, <<"PROPS=\"", "name,mountpoint,canmount", "\"">>>>]}

\* stdout of zfs list -H -r -t filesystem -o PROPS pool: the pool mounted
\* under the alternate root, one child under it
ZfsListOutput(pool) ==
    <<pool.name, "\t", "/rpool", "\t", "on", "\n",
      pool.name, "/home", "\t", "/rpool", "/", "home", "\t", "on", "\n">>

\* sys_output's return value: the placeholder in dry mode, else the stdout
\* without its last character.  On a host that prints the placeholders the
\* stdout is the placeholder and a newline.
sys_output_value(dry_mode_output, raw) ==
    IF CONFIG.dry_mode THEN dry_mode_output
    ELSE LET stdout == IF host = "placeholders" THEN dry_mode_output \o <<"\n">>
                       ELSE raw
         IN  SubSeq(stdout, 1, Len(stdout) - 1)

\* ------------------------------------------------------------------------
\* The functions main() calls: the gateway calls each makes, in order
\* ------------------------------------------------------------------------
os_release(raw) ==
    <<call_sys_output(<<<<"source /etc/os-release; echo $VERSION_ID">>>>,
                      <<"36">>, raw)>>

install_zfs_to_live_environment(version) ==
    <<call_sys(Words(<<"rpm", "--erase", "--nodeps", "zfs-fuse">>))>>
    \o dnf_install(<<zfs_release_rpm(version)>>, <<>>, 0)
    \o (IF version > 37
        THEN <<call_sys(Words(<<"sed", "--in-place", "s/$releasever/37/g",
                                "/etc/yum.repos.d/zfs.repo">>))>>
        ELSE <<>>)
    \o dnf_install(<<<<"kernel-devel-", "uname.release">>, <<"zfs">>>>, <<>>, 0)
    \o <<call_sys(Words(<<"modprobe", "zfs">>))>>

dd_zero(disk) ==
    [call_sys(<<<<"dd">>, <<"if=/dev/zero">>, <<"of=", disk>>, <<"bs=4096">>,
                <<"status=progress">>>>)
        EXCEPT !.ignore_exit_code = FALSE]

blkdiscard_and_zero_disks ==
    Flatten([p \in 1..Len(CONFIG_POOLS) |->
        Flatten([d \in 1..Len(CONFIG_POOLS[p].disks) |->
            <<call_sys(Words(<<"blkdiscard", "--force", CONFIG_POOLS[p].disks[d]>>))>>
            \o (IF CONFIG.zero_disks
                THEN <<dd_zero(CONFIG_POOLS[p].disks[d])>> ELSE <<>>)])])

\* partition_root_pool_disk with the pool partition made before the swap
partition_root_pool_disk_swap_last(disk) ==
    <<call_sys(Words(<<"sgdisk", "--zap-all", disk>>)),
      call_sys(Words(<<"sgdisk", "--new=0:1M:+512M", "--typecode=0:EF00",
                       "--change-name=0:EFI System Partition", disk>>)),
      call_sys(<<<<"sgdisk">>, <<"--new=0:0:0">>, <<"--typecode=0:BF00">>,
                 <<"--change-name=0:ZFS Pool ", CONFIG.root_pool.name>>,
                 <<disk>>>>)>>
    \o (IF CONFIG.swap_size # ""
        THEN <<call_sys(<<<<"sgdisk">>, <<"--new=0:0:+", CONFIG.swap_size>>,
                          <<"--typecode=0:8200">>, <<"--change-name=0:Swap">>,
                          <<disk>>>>)>>
        ELSE <<>>)

partition_root_pool_disk(disk) ==
    <<call_sys(Words(<<"sgdisk", "--zap-all", disk>>)),
      call_sys(Words(<<"sgdisk", "--new=0:1M:+512M", "--typecode=0:EF00",
                       "--change-name=0:EFI System Partition", disk>>))>>
    \o (IF CONFIG.swap_size # ""
        THEN <<call_sys(<<<<"sgdisk">>, <<"--new=0:0:+", CONFIG.swap_size>>,
                          <<"--typecode=0:8200">>, <<"--change-name=0:Swap">>,
                          <<disk>>>>)>>
        ELSE <<>>)
    \o <<call_sys(<<<<"sgdisk">>, <<"--new=0:0:0">>, <<"--typecode=0:BF00">>,
                    <<"--change-name=0:ZFS Pool ", CONFIG.root_pool.name>>,
                    <<disk>>>>)>>

\* partition_root_pool_disks with the sleep inside the loop over the disks
partition_root_pool_disks_sleep_per_disk ==
    Flatten([d \in 1..Len(CONFIG.root_pool.disks) |->
                partition_root_pool_disk(CONFIG.root_pool.disks[d])
                \o <<Call("sleep", Words(<<"2">>))>>])

partition_root_pool_disks ==
    Flatten([d \in 1..Len(CONFIG.root_pool.disks) |->
                partition_root_pool_disk(CONFIG.root_pool.disks[d])])
    \o <<Call("sleep", Words(<<"2">>))>>

\* partition="-part2" whether or not the disks have a swap partition
root_pool_partition_always_part2 == <<"-part2">>

root_pool_partition == IF CONFIG.swap_size # "" THEN <<"-part3">> ELSE <<"-part2">>

\* create_zfs_pools_and_file_systems with the bootfs set before the root
\* file system is created, and the home file systems before their parent
create_zfs_pools_and_file_systems_children_first(suffix) ==
    LET root_fs_name == <<"ROOT/fedora_", suffix>> IN
    <<call_sys(Words(<<"zgenhostid">>))>>
    \o zpool_create(CONFIG.root_pool, NEW_SYSTEM_ROOT, root_pool_partition)
    \o Flatten([p \in 1..Len(CONFIG.data_pools) |->
                   zpool_create(CONFIG.data_pools[p], <<>>, <<>>)])
    \o zfs_create(CONFIG.root_pool, <<"ROOT">>, <<"mountpoint=none">>)
    \o <<call_sys(<<<<"zpool">>, <<"set">>,
                    <<"bootfs=", CONFIG.root_pool.name, "/">> \o root_fs_name,
                    <<CONFIG.root_pool.name>>>>)>>
    \o zfs_create(CONFIG.root_pool, root_fs_name,
                  <<"mountpoint=/", "canmount=noauto",
                    "org.zfsbootmenu:rootprefix=root=zfs:",
                    "org.zfsbootmenu:commandline=ro quiet">>)
    \o <<call_sys(<<<<"zfs">>, <<"mount">>,
                    <<CONFIG.root_pool.name, "/">> \o root_fs_name>>)>>
    \o zfs_create(CONFIG.root_pool, <<"home/root">>, <<"mountpoint=/root">>)
    \o Flatten([u \in 1..Len(CONFIG.users) |->
                   zfs_create(CONFIG.root_pool, <<"home/", CONFIG.users[u].name>>,
                              <<>>)])
    \o zfs_create(CONFIG.root_pool, <<"home">>, <<"mountpoint=/home">>)

create_zfs_pools_and_file_systems(suffix) ==
    LET root_fs_name == <<"ROOT/fedora_", suffix>> IN
    <<call_sys(Words(<<"zgenhostid">>))>>
    \o zpool_create(CONFIG.root_pool, NEW_SYSTEM_ROOT, root_pool_partition)
    \o Flatten([p \in 1..Len(CONFIG.data_pools) |->
                   zpool_create(CONFIG.data_pools[p], <<>>, <<>>)])
    \o zfs_create(CONFIG.root_pool, <<"ROOT">>, <<"mountpoint=none">>)
    \o zfs_create(CONFIG.root_pool, root_fs_name,
                  <<"mountpoint=/", "canmount=noauto",
                    "org.zfsbootmenu:rootprefix=root=zfs:",
                    "org.zfsbootmenu:commandline=ro quiet">>)
    \o <<call_sys(<<<<"zfs">>, <<"mount">>,
                    <<CONFIG.root_pool.name, "/">> \o root_fs_name>>),
         call_sys(<<<<"zpool">>, <<"set">>,
                    <<"bootfs=", CONFIG.root_pool.name, "/">> \o root_fs_name,
                    <<CONFIG.root_pool.name>>>>)>>
    \o zfs_create(CONFIG.root_pool, <<"home">>, <<"mountpoint=/home">>)
    \o zfs_create(CONFIG.root_pool, <<"home/root">>, <<"mountpoint=/root">>)
    \o Flatten([u \in 1..Len(CONFIG.users) |->
                   zfs_create(CONFIG.root_pool, <<"home/", CONFIG.users[u].name>>,
                              <<>>)])

\* return pool_key_files, the None entries kept
create_zfs_pools_and_file_systems_result_unfiltered ==
    [p \in 1..Len(CONFIG_POOLS) |-> zpool_create_result(CONFIG_POOLS[p])]

\* return [f for f in pool_key_files if f is not None]
create_zfs_pools_and_file_systems_result ==
    SelectSeq([p \in 1..Len(CONFIG_POOLS) |-> zpool_create_result(CONFIG_POOLS[p])],
              LAMBDA f : f # <<>>)

\* zfsbootmenu_image: the downloaded file in live mode, a fixed name in dry mode
zfsbootmenu_image ==
    IF ~CONFIG.dry_mode THEN <<"cwd/", "zfsbootmenu-release-x86_64.EFI">>
    ELSE <<"zbfsbootmenu.efi">>

\* Path.name: the last component
path_name(path) == <<path[Len(path)]>>

efis_dir == NEW_SYSTEM_ROOT \o <<"/boot/efis">>

\* the steps of one disk with the image copied before the partition is mounted
setup_efi_disk_copy_before_mount(disk, raw) ==
    LET efi_disk_uuid == sys_output_value(<<"A48C-0D61">>, raw)
        disk_efi_dir == efis_dir \o <<"/">> \o efi_disk_uuid
    IN  <<call_sys(<<<<"mkfs.fat">>, <<"-F">>, <<"32">>, <<"-s">>, <<"1">>,
                     <<"-n">>, <<"EFI">>, <<disk, "-part1">>>>),
          call_sys_output(<<<<"blkid">>, <<"--match-tag">>, <<"UUID">>,
                            <<"--output">>, <<"value">>, <<disk, "-part1">>>>,
                          <<"A48C-0D61">>, raw),
          Call("mkdir", <<disk_efi_dir>>),
          Call("copy2", <<zfsbootmenu_image, disk_efi_dir>>),
          call_sys(<<<<"mount">>, <<disk, "-part1">>, disk_efi_dir>>),
          call_sys(<<<<"efibootmgr">>, <<"--create">>, <<"--disk">>, <<disk>>,
                     <<"--part">>, <<"1">>, <<"--label">>,
                     <<"ZFSBootMenu (">> \o efi_disk_uuid \o <<")">>,
                     <<"--loader">>, <<"\\">> \o path_name(zfsbootmenu_image)>>)>>

setup_efi_disk(disk, raw) ==
    LET efi_disk_uuid == sys_output_value(<<"A48C-0D61">>, raw)
        disk_efi_dir == efis_dir \o <<"/">> \o efi_disk_uuid
    IN  <<call_sys(<<<<"mkfs.fat">>, <<"-F">>, <<"32">>, <<"-s">>, <<"1">>,
                     <<"-n">>, <<"EFI">>, <<disk, "-part1">>>>),
          call_sys_output(<<<<"blkid">>, <<"--match-tag">>, <<"UUID">>,
                            <<"--output">>, <<"value">>, <<disk, "-part1">>>>,
                          <<"A48C-0D61">>, raw),
          Call("mkdir", <<disk_efi_dir>>),
          call_sys(<<<<"mount">>, <<disk, "-part1">>, disk_efi_dir>>),
          Call("copy2", <<zfsbootmenu_image, disk_efi_dir>>),
          call_sys(<<<<"efibootmgr">>, <<"--create">>, <<"--disk">>, <<disk>>,
                     <<"--part">>, <<"1">>, <<"--label">>,
                     <<"ZFSBootMenu (">> \o efi_disk_uuid \o <<")">>,
                     <<"--loader">>, <<"\\">> \o path_name(zfsbootmenu_image)>>)>>

\* raws[i]: what blkid prints for the i-th root-pool disk
setup_efi_partitions_and_install_zfsbootmenu(raws) ==
    <<call_sys(Words(<<"curl", "--remote-name", "--remote-header-name",
                       "--location", "https://get.zfsbootmenu.org/efi">>))>>
    \o (IF ~CONFIG.dry_mode THEN <<Call("glob", Words(<<"zfsbootmenu-*">>))>>
        ELSE <<>>)
    \o Flatten([d \in 1..Len(CONFIG.root_pool.disks) |->
                   setup_efi_disk(CONFIG.root_pool.disks[d], raws[d])])

\* efi_disk_uuids.insert(0, efi_disk_uuid) in place of append
setup_efi_partitions_and_install_zfsbootmenu_result_reversed(raws) ==
    [d \in 1..Len(CONFIG.root_pool.disks) |->
        sys_output_value(<<"A48C-0D61">>,
                         raws[Len(CONFIG.root_pool.disks) + 1 - d])]

\* return efi_disk_uuids
setup_efi_partitions_and_install_zfsbootmenu_result(raws) ==
    [d \in 1..Len(CONFIG.root_pool.disks) |->
        sys_output_value(<<"A48C-0D61">>, raws[d])]

rbind_mounts ==
    Flatten([i \in 1..3 |->
        LET rbind_dir == <<"dev", "proc", "sys">>[i] IN
        <<Call("mkdir", <<NEW_SYSTEM_ROOT \o <<"/", rbind_dir>>>>),
          call_sys(<<<<"mount">>, <<"--rbind">>, <<"/", rbind_dir>>,
                     NEW_SYSTEM_ROOT \o <<"/", rbind_dir>>>>)>>])

\* CONFIG.locale[: CONFIG.locale.index("_")]; index raises ValueError when
\* the locale has no "_"
locale_has_underscore == \E i \in 1..Len(CONFIG.locale) : CONFIG.locale[i] = "_"

locale_lang ==
    LET i == CHOOSE k \in 1..Len(CONFIG.locale) :
                 CONFIG.locale[k] = "_" /\ \A j \in 1..(k - 1) : CONFIG.locale[j] # "_"
    IN  SubSeq(CONFIG.locale, 1, i - 1)

install_packages(version) ==
    dnf_install(<<zfs_release_rpm(version)>>
                \o Words(<<"@core", "kernel", "kernel-devel", "kexec-tools",
                           "efibootmgr", "glibc-minimal-langpack">>)
                \o <<<<"glibc-langpack-">> \o locale_lang>>
                \o Words(<<"zfs", "zfs-dracut", "@workstation-product-environment">>),
                NEW_SYSTEM_ROOT, version)
    \o (IF version > 37
        THEN <<call_sys(<<<<"sed">>, <<"--in-place">>, <<"s/$releasever/37/g">>,
                          NEW_SYSTEM_ROOT \o <<"/etc/yum.repos.d/zfs.repo">>>>)>>
        ELSE <<>>)

crypttab_line(i, disk) ==
    <<"cryptswap", ToString(i), " ", disk, "-part2", " /dev/urandom ",
      "swap,cipher=aes-xts-plain64:sha256,size=256,discard", "\n">>

write_crypttab ==
    IF CONFIG.swap_size # ""
    THEN <<call_cat_to_file(
             NEW_SYSTEM_ROOT \o <<"/etc/crypttab">>,
             Flatten([i \in 1..Len(CONFIG.root_pool.disks) |->
                         crypttab_line(i, CONFIG.root_pool.disks[i])]))>>
    ELSE <<>>

fstab_efi_line(efi_disk_uuid) ==
    <<"/dev/disk/by-uuid/">> \o efi_disk_uuid \o <<" ", "/boot/efis/">>
    \o efi_disk_uuid \o <<" ", "vfat umask=0077,shortname=winnt,nofail 0 2", "\n">>

\* the swap line written with i in place of i + 1
fstab_swap_line_from_zero(i) ==
    <<"/dev/mapper/", "cryptswap", ToString(i - 1), " ", "none", " ", "swap", " ",
      "x-systemd.requires=cryptsetup.target,defaults 0 0", "\n">>

fstab_swap_line(i) ==
    <<"/dev/mapper/", "cryptswap", ToString(i), " ", "none", " ", "swap", " ",
      "x-systemd.requires=cryptsetup.target,defaults 0 0", "\n">>

\* zip(CONFIG.root_pool.disks, efi_disk_uuids) stops at the shorter one
write_fstab(uuids) ==
    <<call_cat_to_file(
        NEW_SYSTEM_ROOT \o <<"/etc/fstab">>,
        Flatten([i \in 1..Min(Len(CONFIG.root_pool.disks), Len(uuids)) |->
                    fstab_efi_line(uuids[i])])
        \o (IF CONFIG.swap_size # ""
            THEN Flatten([i \in 1..Len(CONFIG.root_pool.disks) |->
                             fstab_swap_line(i)])
            ELSE <<>>))>>

write_dracut_zfs_conf(key_files) ==
    <<call_cat_to_file(
        NEW_SYSTEM_ROOT \o <<"/etc/dracut.conf.d/zfs.conf">>,
        <<"add_dracutmodules+=\" zfs \"", "\n">>
        \o (IF key_files # <<>>
            THEN <<"install_items+=\"">>
                 \o Flatten([i \in 1..Len(key_files) |-> <<" ">> \o key_files[i]])
                 \o <<" \"", "\n">>
            ELSE <<>>))>>

\* The last line that starts with PROPS=" gives the properties: the line
\* without that prefix and without its last character; None is <<>>.
RECURSIVE zfs_properties_of(_, _)
zfs_properties_of(lines, found) ==
    IF lines = <<>> THEN found
    ELSE zfs_properties_of(
            Tail(lines),
            IF Head(lines) # <<>> /\ Head(lines)[1] = "PROPS=\""
            THEN SubSeq(Head(lines), 2, Len(Head(lines)) - 1)
            ELSE found)

\* zfs_properties_text before the script is read
NotRead == [read |-> FALSE, exists |-> FALSE, lines |-> <<>>]

\* Path(...).read_text(): the lines of the script, or that there is no file
read_text(script) == [read |-> TRUE, exists |-> script.exists, lines |-> script.lines]

\* if zfs_properties is None in place of if not zfs_properties
write_zfs_mount_generator_cache_raises_if_none(script) ==
    IF ~script.exists THEN "FileNotFoundError"
    ELSE IF \A i \in 1..Len(script.lines) : script.lines[i][1] # "PROPS=\""
         THEN "Could not determine properties"
         ELSE "none"

\* The exception write_zfs_mount_generator_cache raises before its first
\* gateway call, "none" if it raises none.
write_zfs_mount_generator_cache_raises(script) ==
    IF ~script.exists THEN "FileNotFoundError"
    ELSE IF zfs_properties_of(script.lines, <<>>) = <<>>
         THEN "Could not determine properties"
         ELSE "none"

\* str.replace of "/rpool/" by "/" and of "/rpool\t" by "/\t"
RECURSIVE replace_altroot(_)
replace_altroot(s) ==
    IF s = <<>> THEN <<>>
    ELSE IF Len(s) >= 2 /\ <<s[1]>> = NEW_SYSTEM_ROOT /\ s[2] = "/"
         THEN <<"/">> \o replace_altroot(SubSeq(s, 3, Len(s)))
         ELSE IF Len(s) >= 2 /\ <<s[1]>> = NEW_SYSTEM_ROOT /\ s[2] = "\t"
              THEN <<"/", "\t">> \o replace_altroot(SubSeq(s, 3, Len(s)))
              ELSE <<s[1]>> \o replace_altroot(Tail(s))

zfs_list_cache_dir == NEW_SYSTEM_ROOT \o <<"/etc/zfs/zfs-list.cache">>

zfs_list_cache_of(pool, zfs_properties) ==
    LET dry_mode_output ==
            <<pool.name, "\t", "/", "\t", "off", "\t", "on", "\t", pool.name, "\t",
              "prompt">>
        properties_of_pool == sys_output_value(dry_mode_output, ZfsListOutput(pool))
    IN  <<call_sys_output(
            Words(<<"zfs", "list", "-H", "-r", "-t", "filesystem", "-o">>)
            \o <<zfs_properties, <<pool.name>>>>,
            dry_mode_output, ZfsListOutput(pool)),
          call_cat_to_file(
            zfs_list_cache_dir \o <<"/", pool.name>>,
            IF pool = CONFIG.root_pool THEN replace_altroot(properties_of_pool)
            ELSE properties_of_pool)>>

write_zfs_mount_generator_cache(script) ==
    <<Call("mkdir", <<zfs_list_cache_dir>>)>>
    \o Flatten([p \in 1..Len(CONFIG_POOLS) |->
                   zfs_list_cache_of(CONFIG_POOLS[p],
                                     zfs_properties_of(script.lines, <<>>))])

copy_hostid_and_key_files(key_files) ==
    <<Call("copy2", <<<<"/etc/hostid">>, NEW_SYSTEM_ROOT \o <<"/etc">>>>)>>
    \o [i \in 1..Len(key_files) |->
           Call("copy2", <<key_files[i], NEW_SYSTEM_ROOT \o <<"/etc/zfs">>>>)]

run_systemd_firstboot_and_enable_services ==
    <<Call("rm", <<NEW_SYSTEM_ROOT \o <<"/etc/localtime">>>>),
      call_sys(<<<<"systemd-firstboot">>, <<"--root=">> \o NEW_SYSTEM_ROOT,
                 <<"--locale=">> \o CONFIG.locale,
                 <<"--locale-messages=">> \o CONFIG.locale,
                 <<"--keymap=", "us">>, <<"--timezone=", "UTC">>,
                 <<"--hostname=", "localhost">>, <<"--force">>>>),
      call_sys(<<<<"systemctl">>, <<"--root=">> \o NEW_SYSTEM_ROOT, <<"enable">>,
                 <<"systemd-timesyncd">>, <<"zfs-import-cache">>, <<"zfs-zed">>,
                 <<"zfs-import.target">>, <<"zfs.target">>>>)>>

\* the first statements of the with block with the cachefile pinned for the
\* root pool only
fixfiles_and_cachefile_root_pool_only ==
    <<call_sys(Words(<<"fixfiles", "-F", "onboot">>)),
      call_sys(Words(<<"zpool", "set", "cachefile=/etc/zfs/zpool.cache",
                       CONFIG.root_pool.name>>))>>

\* the first statements of the with block of main()
fixfiles_and_cachefile ==
    <<call_sys(Words(<<"fixfiles", "-F", "onboot">>))>>
    \o [p \in 1..Len(CONFIG_POOLS) |->
           call_sys(Words(<<"zpool", "set", "cachefile=/etc/zfs/zpool.cache",
                            CONFIG_POOLS[p].name>>))]

\* kernel_version[len("kernel-"):] drops the leading "kernel-"
kernel_install(kernel_version) ==
    LET version == Tail(kernel_version) IN
    call_sys(<<<<"kernel-install">>, <<"add">>, version,
               <<"/usr/lib/modules/">> \o version \o <<"/vmlinuz">>>>)

compile_kernel_dkms_modules_and_generate_initramfs(raw) ==
    LET dry_mode_output == <<"kernel-", "5.17.5-200.fc35.x86_64">>
        kernels == splitlines(sys_output_value(dry_mode_output, raw))
    IN  <<call_sys_output(Words(<<"rpm", "--query", "kernel">>), dry_mode_output, raw)>>
        \o [k \in 1..Len(kernels) |-> kernel_install(kernels[k])]

setup_user(user) ==
    LET user_home_dir == <<"/home/", user.name>> IN
    <<call_sys(Words(<<"useradd", "--user-group">>)
               \o (IF user.wheel THEN Words(<<"--groups", "wheel">>) ELSE <<>>)
               \o (IF user.comment # ""
                   THEN Words(<<"--comment", user.comment>>) ELSE <<>>)
               \o <<<<"--no-create-home">>, <<"--home-dir">>, user_home_dir,
                    <<user.name>>>>),
      call_sys(<<<<"zfs">>, <<"allow">>, <<"-u">>, <<user.name>>,
                 <<"mount,snapshot,destroy">>,
                 <<CONFIG.root_pool.name, "/home/", user.name>>>>),
      Call("copytree", <<<<"/etc/skel">>, user_home_dir>>),
      Call("chown", <<<<"--recursive">>, <<user.name, ":", user.name>>,
                      user_home_dir>>),
      Call("chmod", <<<<"700">>, user_home_dir>>),
      call_sys(<<<<"restorecon">>, user_home_dir>>)>>
    \o passwd(user.name, user.password, FALSE)

setup_users ==
    passwd("root", CONFIG.root_password, TRUE)
    \o Flatten([u \in 1..Len(CONFIG.users) |-> setup_user(CONFIG.users[u])])

\* the statements of main() after the with block with the export before the
\* unmount
snapshot_unmount_export_export_first ==
    <<call_sys(<<<<"zfs">>, <<"snapshot">>, <<"-r">>,
                 <<CONFIG.root_pool.name, "@", "date.today", "-before-first-boot">>>>),
      call_sys(Words(<<"zpool", "export", "-a">>)),
      call_sys(<<<<"umount">>, <<"--recursive">>, <<"--lazy">>, NEW_SYSTEM_ROOT>>),
      Call("sleep", Words(<<"10">>))>>

\* the statements of main() after the with block
snapshot_unmount_export ==
    <<call_sys(<<<<"zfs">>, <<"snapshot">>, <<"-r">>,
                 <<CONFIG.root_pool.name, "@", "date.today", "-before-first-boot">>>>),
      call_sys(<<<<"umount">>, <<"--recursive">>, <<"--lazy">>, NEW_SYSTEM_ROOT>>),
      Call("sleep", Words(<<"10">>)),
      call_sys(Words(<<"zpool", "export", "-a">>))>>

\* ------------------------------------------------------------------------
\* main()
\* ------------------------------------------------------------------------
\* main() with the packages installed before dev, proc and sys are mounted
main_statements_packages_before_rbind ==
    <<"check_config_for_errors", "setenforce", "os_release",
      "install_zfs_to_live_environment", "blkdiscard_and_zero_disks",
      "partition_root_pool_disks", "create_zfs_pools_and_file_systems",
      "setup_efi_partitions_and_install_zfsbootmenu", "install_packages",
      "rbind_mounts", "write_crypttab", "write_fstab",
      "write_dracut_zfs_conf", "write_zfs_mount_generator_cache",
      "copy_hostid_and_key_files", "run_systemd_firstboot_and_enable_services",
      "chroot", "fixfiles_and_cachefile",
      "compile_kernel_dkms_modules_and_generate_initramfs", "setup_users",
      "exit_chroot", "snapshot_unmount_export">>

\* main() with setenforce moved before the validation
main_statements_setenforce_first ==
    <<"setenforce", "check_config_for_errors", "os_release",
      "install_zfs_to_live_environment", "blkdiscard_and_zero_disks",
      "partition_root_pool_disks", "create_zfs_pools_and_file_systems",
      "setup_efi_partitions_and_install_zfsbootmenu", "rbind_mounts",
      "install_packages", "write_crypttab", "write_fstab",
      "write_dracut_zfs_conf", "write_zfs_mount_generator_cache",
      "copy_hostid_and_key_files", "run_systemd_firstboot_and_enable_services",
      "chroot", "fixfiles_and_cachefile",
      "compile_kernel_dkms_modules_and_generate_initramfs", "setup_users",
      "exit_chroot", "snapshot_unmount_export">>

\* The statements of main() in program order; "chroot" and "exit_chroot" are
\* entry to and normal exit from the with block.
main_statements ==
    <<"check_config_for_errors", "setenforce", "os_release",
      "install_zfs_to_live_environment", "blkdiscard_and_zero_disks",
      "partition_root_pool_disks", "create_zfs_pools_and_file_systems",
      "setup_efi_partitions_and_install_zfsbootmenu", "rbind_mounts",
      "install_packages", "write_crypttab", "write_fstab",
      "write_dracut_zfs_conf", "write_zfs_mount_generator_cache",
      "copy_hostid_and_key_files", "run_systemd_firstboot_and_enable_services",
      "chroot", "fixfiles_and_cachefile",
      "compile_kernel_dkms_modules_and_generate_initramfs", "setup_users",
      "exit_chroot", "snapshot_unmount_export">>

StatementIndex(stmt) ==
    IF stmt = "main" THEN 0
    ELSE CHOOSE i \in 1..Len(main_statements) : main_statements[i] = stmt

\* A way a statement can go: the exception it raises before its first
\* gateway call ("none" if none), else the calls it makes and the values
\* main's locals hold when it returns.
Outcome(calls) ==
    [raises |-> "none", calls |-> calls, version_id |-> version_id,
     pool_key_files |-> pool_key_files, efi_disk_uuids |-> efi_disk_uuids,
     zfs_properties_text |-> zfs_properties_text]

Raising(exception) == [Outcome(<<>>) EXCEPT !.raises = exception]

Statement(stmt) ==
    CASE stmt = "check_config_for_errors" ->
           {IF check_config_for_errors # "none"
            THEN Raising(check_config_for_errors) ELSE Outcome(<<>>)}
      [] stmt = "setenforce" ->
           {Outcome(<<call_sys(Words(<<"setenforce", "0">>))>>)}
      [] stmt = "os_release" ->
           {[Outcome(os_release(raw))
                EXCEPT !.version_id = int(sys_output_value(<<"36">>, raw))] :
              raw \in (IF CONFIG.dry_mode THEN {<<>>} ELSE VersionOutputs)}
      [] stmt = "install_zfs_to_live_environment" ->
           {Outcome(install_zfs_to_live_environment(version_id))}
      [] stmt = "blkdiscard_and_zero_disks" ->
           {Outcome(blkdiscard_and_zero_disks)}
      [] stmt = "partition_root_pool_disks" ->
           {Outcome(partition_root_pool_disks)}
      [] stmt = "create_zfs_pools_and_file_systems" ->
           {[Outcome(create_zfs_pools_and_file_systems(suffix))
                EXCEPT !.pool_key_files = create_zfs_pools_and_file_systems_result] :
              suffix \in RandomSuffixes}
      [] stmt = "setup_efi_partitions_and_install_zfsbootmenu" ->
           {[Outcome(setup_efi_partitions_and_install_zfsbootmenu(raws))
                EXCEPT !.efi_disk_uuids =
                    setup_efi_partitions_and_install_zfsbootmenu_result(raws)] :
              raws \in {[d \in 1..Len(CONFIG.root_pool.disks) |->
                            IF CONFIG.dry_mode THEN <<>>
                            ELSE BlkidOutput(CONFIG.root_pool.disks[d])]}}
      [] stmt = "rbind_mounts" -> {Outcome(rbind_mounts)}
      [] stmt = "install_packages" ->
           {IF locale_has_underscore THEN Outcome(install_packages(version_id))
            ELSE Raising("ValueError")}
      [] stmt = "write_crypttab" -> {Outcome(write_crypttab)}
      [] stmt = "write_fstab" -> {Outcome(write_fstab(efi_disk_uuids))}
      [] stmt = "write_dracut_zfs_conf" ->
           {Outcome(write_dracut_zfs_conf(pool_key_files))}
      [] stmt = "write_zfs_mount_generator_cache" ->
           {[IF write_zfs_mount_generator_cache_raises(script) # "none"
             THEN Raising(write_zfs_mount_generator_cache_raises(script))
             ELSE Outcome(write_zfs_mount_generator_cache(script))
                EXCEPT !.zfs_properties_text = read_text(script)] :
              script \in ScriptTexts}
      [] stmt = "copy_hostid_and_key_files" ->
           {Outcome(copy_hostid_and_key_files(pool_key_files))}
      [] stmt = "run_systemd_firstboot_and_enable_services" ->
           {Outcome(run_systemd_firstboot_and_enable_services)}
      [] stmt = "chroot" -> {Outcome(<<Call("chroot", <<NEW_SYSTEM_ROOT>>)>>)}
      [] stmt = "fixfiles_and_cachefile" -> {Outcome(fixfiles_and_cachefile)}
      [] stmt = "compile_kernel_dkms_modules_and_generate_initramfs" ->
           {Outcome(compile_kernel_dkms_modules_and_generate_initramfs(raw)) :
              raw \in (IF CONFIG.dry_mode THEN {<<>>} ELSE RpmOutputs)}
      [] stmt = "setup_users" -> {Outcome(setup_users)}
      [] stmt = "exit_chroot" -> {Outcome(<<Call("exit_chroot", <<NEW_SYSTEM_ROOT>>)>>)}
      [] stmt = "snapshot_unmount_export" -> {Outcome(snapshot_unmount_export)}

\* chroot() without try/finally: an exception skips the exit
unwind_without_finally(in_try) == <<>>

\* An exception leaves the run: inside the with block the finally clause of
\* chroot() runs first; outside it nothing more runs.
unwind(in_try) ==
    IF in_try THEN <<Call("exit_chroot", <<NEW_SYSTEM_ROOT>>)>> ELSE <<>>

Running == exc = "none" /\ pc # "done"

Aborted == exc # "none" /\ pending = <<>>

Completed == pc = "done"

\* main() goes on to its next statement once the running one has returned.
main ==
    /\ Running
    /\ pending = <<>>
    /\ UNCHANGED <<CONFIG, host, transcript, log, effects, last_call, root, oldroot_fd, in_chroot>>
    /\ IF StatementIndex(pc) = Len(main_statements)
       THEN /\ pc' = "done"
            /\ UNCHANGED <<pending, exc, version_id, pool_key_files, efi_disk_uuids,
                           zfs_properties_text>>
       ELSE LET stmt == main_statements[StatementIndex(pc) + 1] IN
            \E b \in Statement(stmt) :
               /\ pc' = stmt
               /\ exc' = b.raises
               /\ pending' = IF b.raises # "none" THEN unwind(in_chroot) ELSE b.calls
               /\ version_id' = b.version_id
               /\ pool_key_files' = b.pool_key_files
               /\ efi_disk_uuids' = b.efi_disk_uuids
               /\ zfs_properties_text' = b.zfs_properties_text

\* ------------------------------------------------------------------------
\* Bash primitives that log and act
\* ------------------------------------------------------------------------
ExitCodes == {0, 1}

\* One LOGGER.info record: the statement of main() it is logged under, the
\* primitive, its arguments and, for cat_to_file, the lines of the contents.
LogLine(c, lines) == [fn |-> pc, prim |-> c.prim, args |-> c.args, lines |-> lines]

\* One operation performed on the host.
Effect(c) ==
    [fn |-> pc, prim |-> c.prim, args |-> c.args, contents |-> c.contents]

\* How an operation performed on the host ended: the exit code of the
\* program or the failure of the OS call (0 is success), and whether the
\* primitive raised.
Ended(c, rc, raised) ==
    [prim |-> c.prim, args |-> c.args, ignore_exit_code |-> c.ignore_exit_code,
     rc |-> rc, raised |-> raised]

NoCall == Ended(Call("none", <<>>), 0, FALSE)

\* the operation is performed and ends with rc
Perform(c, rc, raised) ==
    /\ effects' = Append(effects, Effect(c))
    /\ last_call' = Ended(c, rc, raised)

Next1(prim) == Running /\ pending # <<>> /\ Head(pending).prim = prim

\* The primitive returns, or raises the exception.
Return(exception) ==
    /\ exc' = exception
    /\ pending' = IF exception = "none" THEN Tail(pending) ELSE unwind(in_chroot)

\* A primitive that logs one line and, in live mode, makes one OS call that
\* may fail with OSError.
LogAndDo(c) ==
    /\ log' = Append(log, LogLine(c, <<>>))
    /\ IF CONFIG.dry_mode
       THEN UNCHANGED <<effects, last_call>> /\ Return("none")
       ELSE \E rc \in ExitCodes :
               /\ Perform(c, rc, rc # 0)
               /\ Return(IF rc # 0 THEN "OSError" ELSE "none")
    /\ UNCHANGED <<CONFIG, host, transcript, zfs_properties_text, pc, root, oldroot_fd, in_chroot, version_id,
                   pool_key_files, efi_disk_uuids>>

\* subprocess.check_call raises on a non-zero exit, subprocess.call does not
sys_raises(ignore_exit_code, rc) == ignore_exit_code /\ rc # 0

\* sys without the test of CONFIG.dry_mode
sys_in_any_mode ==
    /\ Next1("sys")
    /\ LET c == Head(pending) IN
       /\ log' = Append(log, LogLine(c, <<>>))
       /\ \E rc \in ExitCodes :
             /\ Perform(c, rc, sys_raises(c.ignore_exit_code, rc))
             /\ Return(IF sys_raises(c.ignore_exit_code, rc)
                       THEN "CalledProcessError" ELSE "none")
    /\ UNCHANGED <<CONFIG, host, transcript, zfs_properties_text, pc, root, oldroot_fd, in_chroot, version_id,
                   pool_key_files, efi_disk_uuids>>

sys ==
    /\ Next1("sys")
    /\ LET c == Head(pending) IN
       /\ log' = Append(log, LogLine(c, <<>>))
       /\ IF CONFIG.dry_mode
          THEN UNCHANGED <<effects, last_call>> /\ Return("none")
          ELSE \E rc \in ExitCodes :
                  /\ Perform(c, rc, sys_raises(c.ignore_exit_code, rc))
                  /\ Return(IF sys_raises(c.ignore_exit_code, rc)
                            THEN "CalledProcessError" ELSE "none")
    /\ UNCHANGED <<CONFIG, host, transcript, zfs_properties_text, pc, root, oldroot_fd, in_chroot, version_id,
                   pool_key_files, efi_disk_uuids>>

\* the "#> line" records of the captured output
OutputLines(c) ==
    LET lines == splitlines(sys_output_value(c.dry_mode_output, c.raw)) IN
    [i \in 1..Len(lines) |->
        [fn |-> pc, prim |-> "#>", args |-> <<lines[i]>>, lines |-> <<>>]]

sys_output ==
    /\ Next1("sys_output")
    /\ LET c == Head(pending) IN
       IF CONFIG.dry_mode
       THEN /\ log' = Append(log, LogLine(c, <<>>)) \o OutputLines(c)
            /\ UNCHANGED <<effects, last_call>>
            /\ Return("none")
       ELSE \E rc \in ExitCodes :
               /\ Perform(c, rc, rc # 0)
               /\ log' = Append(log, LogLine(c, <<>>))
                         \o (IF rc = 0 THEN OutputLines(c) ELSE <<>>)
               /\ Return(IF rc # 0 THEN "CalledProcessError" ELSE "none")
    /\ UNCHANGED <<CONFIG, host, transcript, zfs_properties_text, pc, root, oldroot_fd, in_chroot, version_id,
                   pool_key_files, efi_disk_uuids>>

cat_to_file ==
    /\ Next1("cat_to_file")
    /\ LET c == Head(pending) IN
       /\ log' = Append(log, LogLine(c, splitlines(c.contents)))
       /\ IF CONFIG.dry_mode
          THEN UNCHANGED <<effects, last_call>> /\ Return("none")
          ELSE \E rc \in ExitCodes :
                  /\ Perform(c, rc, rc # 0)
                  /\ Return(IF rc # 0 THEN "OSError" ELSE "none")
    /\ UNCHANGED <<CONFIG, host, transcript, zfs_properties_text, pc, root, oldroot_fd, in_chroot, version_id,
                   pool_key_files, efi_disk_uuids>>

copy2 == Next1("copy2") /\ LogAndDo(Head(pending))

copytree == Next1("copytree") /\ LogAndDo(Head(pending))

chown == Next1("chown") /\ LogAndDo(Head(pending))

chmod == Next1("chmod") /\ LogAndDo(Head(pending))

mkdir == Next1("mkdir") /\ LogAndDo(Head(pending))

rm == Next1("rm") /\ LogAndDo(Head(pending))

\* time.sleep does not fail
sleep ==
    /\ Next1("sleep")
    /\ LET c == Head(pending) IN
       /\ log' = Append(log, LogLine(c, <<>>))
       /\ IF CONFIG.dry_mode THEN UNCHANGED <<effects, last_call>>
          ELSE Perform(c, 0, FALSE)
       /\ Return("none")
    /\ UNCHANGED <<CONFIG, host, transcript, zfs_properties_text, pc, root, oldroot_fd, in_chroot, version_id,
                   pool_key_files, efi_disk_uuids>>

\* the branch of passwd() that feeds the password to the passwd program
passwd_stdin ==
    /\ Next1("passwd")
    /\ LET c == Head(pending) IN
       /\ log' = Append(log, LogLine(c, <<>>))
       /\ IF CONFIG.dry_mode
          THEN UNCHANGED <<effects, last_call>> /\ Return("none")
          ELSE \E rc \in ExitCodes :
                  /\ Perform(c, rc, rc # 0)
                  /\ Return(IF rc # 0 THEN "CalledProcessError" ELSE "none")
    /\ UNCHANGED <<CONFIG, host, transcript, zfs_properties_text, pc, root, oldroot_fd, in_chroot, version_id,
                   pool_key_files, efi_disk_uuids>>

\* next(Path.cwd().glob("zfsbootmenu-*")), evaluated in live mode only:
\* StopIteration when curl left no such file
glob ==
    /\ Next1("glob")
    /\ \E found \in BOOLEAN : Return(IF found THEN "none" ELSE "StopIteration")
    /\ UNCHANGED <<CONFIG, host, transcript, zfs_properties_text, pc, log, effects, last_call, root, oldroot_fd,
                   in_chroot, version_id, pool_key_files, efi_disk_uuids>>

\* chroot() up to its yield: log, open the old root, enter the try block and
\* in live mode change directory and root; os.chdir(newroot) may fail.
chroot ==
    /\ Next1("chroot")
    /\ LET c == Head(pending) IN
       /\ log' = Append(log, LogLine(c, <<>>))
       /\ oldroot_fd' = [open |-> TRUE, dir |-> root]
       /\ in_chroot' = TRUE
       /\ IF CONFIG.dry_mode
          THEN /\ UNCHANGED <<effects, last_call, root, exc>>
               /\ pending' = Tail(pending)
          ELSE \E rc \in ExitCodes :
                  /\ Perform(c, rc, rc # 0)
                  /\ root' = IF rc = 0 THEN c.args[1] ELSE root
                  /\ exc' = IF rc = 0 THEN "none" ELSE "OSError"
                  /\ pending' = IF rc = 0 THEN Tail(pending) ELSE unwind(TRUE)
    /\ UNCHANGED <<CONFIG, host, transcript, zfs_properties_text, pc, version_id, pool_key_files, efi_disk_uuids>>

\* the finally clause of chroot(): log, in live mode go back to the old
\* root, close the handle; then the exception, if any, propagates.
exit_chroot ==
    /\ pc # "done"
    /\ pending # <<>>
    /\ Head(pending).prim = "exit_chroot"
    /\ LET c == Head(pending) IN
       /\ log' = Append(log, LogLine(c, <<>>))
       /\ IF CONFIG.dry_mode
          THEN UNCHANGED <<effects, last_call, root>>
          ELSE /\ Perform(c, 0, FALSE)
               /\ root' = oldroot_fd.dir
       /\ oldroot_fd' = [oldroot_fd EXCEPT !.open = FALSE]
       /\ in_chroot' = FALSE
       /\ pending' = Tail(pending)
    /\ UNCHANGED <<CONFIG, host, transcript, zfs_properties_text, pc, exc, version_id, pool_key_files, efi_disk_uuids>>

\* The script is run again after a completed dry run, with dry_mode=False in
\* CONFIG; the log of the dry run is kept for comparison.
run_live ==
    /\ Completed
    /\ CONFIG.dry_mode
    /\ transcript = <<>>
    /\ transcript' = log
    /\ CONFIG' = [CONFIG EXCEPT !.dry_mode = FALSE]
    /\ pc' = "main"
    /\ log' = <<>>
    /\ version_id' = 0
    /\ pool_key_files' = <<>>
    /\ efi_disk_uuids' = <<>>
    /\ zfs_properties_text' = NotRead
    /\ UNCHANGED <<pending, effects, last_call, exc, root, oldroot_fd, in_chroot, host>>

\* ------------------------------------------------------------------------
\* Specifications
\* ------------------------------------------------------------------------
InitState ==
    /\ pc = "main"
    /\ pending = <<>>
    /\ log = <<>>
    /\ effects = <<>>
    /\ last_call = NoCall
    /\ exc = "none"
    /\ root = OLD_ROOT
    /\ oldroot_fd = [open |-> FALSE, dir |-> <<>>]
    /\ in_chroot = FALSE
    /\ version_id = 0
    /\ pool_key_files = <<>>
    /\ efi_disk_uuids = <<>>
    /\ zfs_properties_text = NotRead
    /\ transcript = <<>>

Init == IsRunConfig(CONFIG) /\ host = "own" /\ InitState

InitCheck == IsCheckConfig(CONFIG) /\ host = "own" /\ InitState

\* a dry run of a valid configuration on a host whose programs print what
\* the placeholders say
InitModes ==
    /\ IsRunConfig(CONFIG)
    /\ CONFIG.dry_mode
    /\ check_config_for_errors = "none"
    /\ locale_has_underscore
    /\ host = "placeholders"
    /\ InitState

Next ==
    \/ main
    \/ sys
    \/ sys_output
    \/ cat_to_file
    \/ copy2
    \/ copytree
    \/ chown
    \/ chmod
    \/ mkdir
    \/ rm
    \/ sleep
    \/ passwd_stdin
    \/ glob
    \/ chroot
    \/ exit_chroot

\* a dry run followed by a live run of the same configuration
NextModes == Next \/ run_live

\* the runs of main() over the configurations IsRunConfig
Spec == Init /\ [][Next]_vars

\* the runs of main() over the configurations IsCheckConfig
SpecCheck == InitCheck /\ [][Next]_vars

\* the script run in dry mode and then in live mode
SpecModes == InitModes /\ [][NextModes]_vars

\* a valid configuration with up to MaxNamedDataPools data pools
InitPools ==
    /\ IsNamedPoolsConfig(CONFIG)
    /\ check_config_for_errors = "none"
    /\ host = "own"
    /\ InitState

\* the runs of main() over the valid configurations IsNamedPoolsConfig
SpecPools == InitPools /\ [][Next]_vars

\* a valid configuration of IsRunConfig with a locale that has a language
\* part and data pools without a password: the runs that are not cut short
\* by the configuration, with every choice of users, swap and zeroing
InitUsers ==
    /\ IsRunConfig(CONFIG)
    /\ check_config_for_errors = "none"
    /\ locale_has_underscore
    /\ \A p \in 1..Len(CONFIG.data_pools) : CONFIG.data_pools[p].password = ""
    /\ host = "own"
    /\ InitState

\* the runs of main() over these configurations
SpecUsers == InitUsers /\ [][Next]_vars

\* ------------------------------------------------------------------------
\* Reading the log
\* ------------------------------------------------------------------------
\* the log records that satisfy P, in order
Logged(P(_)) == SelectSeq(log, P)

\* the record logs a run of the program
IsCommand(e, program) ==
    e.prim \in {"sys", "sys_output"} /\ e.args # <<>> /\ e.args[1] = <<program>>

\* main() has returned from the statement
Returned(stmt) ==
    \/ pc = "done"
    \/ pc \in Range(main_statements) /\ StatementIndex(pc) > StatementIndex(stmt)
    \/ pc = stmt /\ pending = <<>> /\ exc = "none"

Primitives ==
    {"sys", "sys_output", "cat_to_file", "copy2", "copytree", "chown", "chmod",
     "mkdir", "rm", "sleep", "passwd", "chroot", "exit_chroot"}

\* ------------------------------------------------------------------------
\* C1
\* ------------------------------------------------------------------------
\* C1: in dry mode no operation is ever performed on the host (no program
\* run, no file written or copied, no directory made, no path removed, no
\* owner or mode changed, no sleep) and the root of the process never
\* changes; the primitives only log.
C1_DryModePerformsNothing ==
    CONFIG.dry_mode =>
        /\ effects = <<>>
        /\ last_call = NoCall
        /\ root = OLD_ROOT

\* a dry run that went through main() to its end and logged every primitive
C1_Witness ==
    /\ CONFIG.dry_mode
    /\ Completed
    /\ {log[i].prim : i \in 1..Len(log)} = Primitives \cup {"#>"}

\* ------------------------------------------------------------------------
\* C2, C3
\* ------------------------------------------------------------------------
AllDisks == Flatten([p \in 1..Len(CONFIG_POOLS) |-> CONFIG_POOLS[p].disks])

HasRepetition(s) == \E i, j \in 1..Len(s) : i < j /\ s[i] = s[j]

\* the defects of a configuration
DuplicatePoolName ==
    HasRepetition([p \in 1..Len(CONFIG_POOLS) |-> CONFIG_POOLS[p].name])

DuplicateDisk == HasRepetition(AllDisks)

SingleWithoutOneDisk ==
    \E p \in 1..Len(CONFIG_POOLS) :
        CONFIG_POOLS[p].kind = "single" /\ Len(CONFIG_POOLS[p].disks) # 1

OtherKindWithOneDiskOrNone ==
    \E p \in 1..Len(CONFIG_POOLS) :
        CONFIG_POOLS[p].kind # "single" /\ Len(CONFIG_POOLS[p].disks) <= 1

DuplicateUserName ==
    HasRepetition([u \in 1..Len(CONFIG.users) |-> CONFIG.users[u].name])

Defective ==
    \/ DuplicatePoolName
    \/ DuplicateDisk
    \/ SingleWithoutOneDisk
    \/ OtherKindWithOneDiskOrNone
    \/ DuplicateUserName

\* check_config_for_errors has raised
Rejected == pc = "check_config_for_errors" /\ exc # "none"

\* C2: once check_config_for_errors has run, it has raised exactly when
\* two pools share a name, or a disk is listed twice over all pools, or a
\* single pool has not exactly one disk, or a pool of another kind has one
\* disk or none, or two users share a name.
C2_RejectsExactlyTheDefective == pc # "main" => (Rejected <=> Defective)

\* a disk listed twice has been rejected
C2_Witness == Rejected /\ DuplicateDisk /\ exc = "disk configured multiple times"

\* C3: for a defective configuration, in either mode, nothing is ever
\* logged or performed, no gateway call is pending, the root is unchanged
\* and main() never gets past check_config_for_errors.
C3_DefectiveAbortsBeforeGateway ==
    Defective =>
        /\ log = <<>>
        /\ effects = <<>>
        /\ last_call = NoCall
        /\ pending = <<>>
        /\ root = OLD_ROOT
        /\ ~oldroot_fd.open
        /\ ~in_chroot
        /\ pc \in {"main", "check_config_for_errors"}

\* a live run of a defective configuration stopped in the validation
C3_Witness == Defective /\ ~CONFIG.dry_mode /\ Rejected /\ Aborted

\* ------------------------------------------------------------------------
\* C4, C5, C6
\* ------------------------------------------------------------------------
LastRan(program) ==
    last_call.prim = "sys" /\ last_call.args # <<>> /\ last_call.args[1] = <<program>>

\* C4: in live mode a sys call whose program exits non-zero raises exactly
\* when it was made with ignore_exit_code=False; with the default it returns.
C4_DefaultToleratesNonZeroExit ==
    (last_call.prim = "sys" /\ last_call.rc # 0) =>
        (last_call.raised <=> ~last_call.ignore_exit_code)

\* C5: in live mode with zero_disks set, a non-zero exit of dd aborts the
\* run there.
C5_FailedZeroingAborts ==
    (CONFIG.zero_disks /\ LastRan("dd") /\ last_call.rc # 0) =>
        (last_call.raised /\ exc # "none")

\* C6: a dry run of a configuration that passes the validation and whose
\* locale has an underscore never raises, whatever the host holds.
C6_DryRunNeverRaises ==
    (CONFIG.dry_mode /\ ~Defective /\ locale_has_underscore) => exc = "none"

\* ------------------------------------------------------------------------
\* C7
\* ------------------------------------------------------------------------
Entries == Len(Logged(LAMBDA e : e.prim = "chroot"))

Exits == Len(Logged(LAMBDA e : e.prim = "exit_chroot"))

HasArg(e, arg) == \E i \in 1..Len(e.args) : e.args[i] = arg

LastArg(e) == e.args[Len(e.args)]

\* what an sgdisk command does: wipes the table, or creates a partition of
\* the type its --typecode names
SgdiskKind(e) ==
    IF HasArg(e, <<"--zap-all">>) THEN "wipe"
    ELSE IF \E i \in 1..Len(e.args) : e.args[i][1] \in {"--new=0:1M:+512M", "--new=0:0:+", "--new=0:0:0"}
         THEN IF HasArg(e, <<"--typecode=0:EF00">>) THEN "EFI"
              ELSE IF HasArg(e, <<"--typecode=0:8200">>) THEN "swap"
              ELSE IF HasArg(e, <<"--typecode=0:BF00">>) THEN "pool member"
              ELSE "other partition"
         ELSE "other"

SgdiskLog == Logged(LAMBDA e : IsCommand(e, "sgdisk"))

\* the commands the claim prescribes for one disk
PartitionPlan ==
    IF CONFIG.swap_size # "" THEN <<"wipe", "EFI", "swap", "pool member">>
    ELSE <<"wipe", "EFI", "pool member">>

\* C8: the sgdisk commands of a run are issued by partition_root_pool_disks
\* only and follow, root-pool disk after root-pool disk in disk order, the
\* plan wipe, EFI, (swap when swap_size is non-empty,) pool member, each on
\* the disk whose turn it is; once the function has returned there are
\* exactly N such groups; no sgdisk command names a data-pool disk.
C8_PartitionPlanPerRootDisk ==
    LET disks == CONFIG.root_pool.disks
        plan == PartitionPlan
        per == Len(plan)
        sg == SgdiskLog
    IN  /\ Len(sg) <= Len(disks) * per
        /\ \A k \in 1..Len(sg) :
              /\ sg[k].fn = "partition_root_pool_disks"
              /\ SgdiskKind(sg[k]) = plan[((k - 1) % per) + 1]
              /\ k <= Len(disks) * per =>
                    LastArg(sg[k]) = <<disks[((k - 1) \div per) + 1]>>
              /\ \A p \in 1..Len(CONFIG.data_pools) :
                    \A d \in 1..Len(CONFIG.data_pools[p].disks) :
                        ~HasArg(sg[k], <<CONFIG.data_pools[p].disks[d]>>)
        /\ Returned("partition_root_pool_disks") => Len(sg) = Len(disks) * per

\* a live run with swap, two root-pool disks and a data pool, after
\* partition_root_pool_disks has returned
C8_Witness ==
    /\ ~CONFIG.dry_mode
    /\ CONFIG.swap_size # ""
    /\ Len(CONFIG.root_pool.disks) = 2
    /\ Len(CONFIG.data_pools) = 1
    /\ Returned("partition_root_pool_disks")
    /\ Len(SgdiskLog) = 8
    /\ Len(SelectSeq(effects, LAMBDA e : IsCommand(e, "sgdisk"))) = 8

\* ------------------------------------------------------------------------
\* C9
\* ------------------------------------------------------------------------
\* the record logs the zpool create of the pool
CreatesPool(e, pool) ==
    /\ IsCommand(e, "zpool")
    /\ Len(e.args) >= 2
    /\ e.args[2] = <<"create">>
    /\ HasArg(e, <<pool.name>>)

IsEncryptionOption(arg) ==
    arg # <<>> /\ arg[1] \in {"encryption=aes-256-gcm", "keyformat=passphrase",
                              "keylocation=file://"}

WritesKeyFile(e, pool) ==
    e.prim = "cat_to_file" /\ e.args = <<zpool_key_file(pool)>>

\* C9: whenever the creation command of a pool is issued: if the pool has a
\* password, the key file /etc/zfs/<pool>.key was written before, with the
\* passphrase as its one line, and after that its mode was set to 0, and the
\* command carries exactly the options encryption, keyformat=passphrase and
\* keylocation of that key file; if it has none, the command carries none of
\* them.  In live mode the same order holds of the operations performed, and
\* the contents written are the passphrase and a newline.  A pool without
\* password never gets a key file written.
C9_KeyFileBeforeEncryptedCreate ==
    \A p \in 1..Len(CONFIG_POOLS) :
        LET pool == CONFIG_POOLS[p]
            key_file == zpool_key_file(pool)
            \* the key file is written and then its mode set, in records
            \* 1..n of the sequence
            KeyFileReady(records, n) ==
                \E i \in 1..n :
                    /\ WritesKeyFile(records[i], pool)
                    /\ \E j \in (i + 1)..n :
                          /\ records[j].prim = "chmod"
                          /\ records[j].args = <<<<"0">>, key_file>>
        IN  /\ \A k \in 1..Len(log) :
                  CreatesPool(log[k], pool) =>
                      IF pool.password # ""
                      THEN /\ KeyFileReady(log, k - 1)
                           /\ \A i \in 1..Len(log) :
                                 WritesKeyFile(log[i], pool) =>
                                     log[i].lines = <<<<pool.password>>>>
                           /\ SelectSeq(log[k].args, IsEncryptionOption)
                                 = <<<<"encryption=aes-256-gcm">>,
                                     <<"keyformat=passphrase">>,
                                     <<"keylocation=file://">> \o key_file>>
                      ELSE SelectSeq(log[k].args, IsEncryptionOption) = <<>>
            /\ \A k \in 1..Len(effects) :
                  (CreatesPool(effects[k], pool) /\ pool.password # "") =>
                      /\ KeyFileReady(effects, k - 1)
                      /\ \A i \in 1..Len(effects) :
                            WritesKeyFile(effects[i], pool) =>
                                effects[i].contents = <<pool.password, "\n">>
            /\ pool.password = "" =>
                  \A k \in 1..Len(log) : ~WritesKeyFile(log[k], pool)

\* a live run that has created a root pool with a password and a data pool
\* without one
C9_Witness ==
    /\ ~CONFIG.dry_mode
    /\ CONFIG.root_pool.password # ""
    /\ Len(CONFIG.data_pools) = 1
    /\ CONFIG.data_pools[1].password = ""
    /\ \E k \in 1..Len(effects) : CreatesPool(effects[k], CONFIG.root_pool)
    /\ \E k \in 1..Len(effects) : CreatesPool(effects[k], CONFIG.data_pools[1])

\* ------------------------------------------------------------------------
\* C10
\* ------------------------------------------------------------------------
\* the log records of setup_efi_partitions_and_install_zfsbootmenu for the
\* EFI partitions: the blkid commands each with the output line that follows
\* it, and the mounts
BlkidReads ==
    LET at == SelectSeq([k \in 1..Len(log) |-> k],
                        LAMBDA k : IsCommand(log[k], "blkid"))
    IN  [i \in 1..Len(at) |->
            [partition |-> LastArg(log[at[i]]),
             output |-> IF at[i] < Len(log) /\ log[at[i] + 1].prim = "#>"
                        THEN log[at[i] + 1].args[1] ELSE <<"no output">>]]

EfiMounts ==
    Logged(LAMBDA e : /\ e.fn = "setup_efi_partitions_and_install_zfsbootmenu"
                      /\ IsCommand(e, "mount"))

\* the directory name under /rpool/boot/efis an EFI partition is mounted at
EfiMountName(mount) ==
    LET dir == mount.args[3] IN
    IF Len(dir) > Len(efis_dir) + 1 /\ SubSeq(dir, 1, Len(efis_dir) + 1) = efis_dir \o <<"/">>
    THEN SubSeq(dir, Len(efis_dir) + 2, Len(dir)) ELSE <<"not under efis_dir">>

FstabLog ==
    Logged(LAMBDA e : e.prim = "cat_to_file"
                      /\ e.args = <<NEW_SYSTEM_ROOT \o <<"/etc/fstab">>>>)

FstabEfiLines == SelectSeq(FstabLog[1].lines, LAMBDA l : l[1] = "/dev/disk/by-uuid/")

\* C10: once setup_efi_partitions_and_install_zfsbootmenu has returned, its
\* result has K entries, the i-th being the output blkid gave for the EFI
\* partition of the i-th root-pool disk, and that partition was mounted at
\* the directory of that name under boot/efis; once write_fstab has returned,
\* the fstab has exactly K EFI lines, the i-th mounting
\* /dev/disk/by-uuid/<uuid_i> at /boot/efis/<uuid_i> with uuid_i the name of
\* the directory the i-th EFI partition was mounted at.
C10_EfiUuidsInDiskOrder ==
    LET disks == CONFIG.root_pool.disks
        K == Len(disks)
        reads == BlkidReads
        mounts == EfiMounts
        names == [i \in 1..Len(mounts) |-> EfiMountName(mounts[i])]
    IN  /\ Returned("setup_efi_partitions_and_install_zfsbootmenu") =>
              /\ Len(efi_disk_uuids) = K
              /\ Len(reads) = K
              /\ Len(mounts) = K
              /\ \A i \in 1..K :
                    /\ reads[i].partition = <<disks[i], "-part1">>
                    /\ reads[i].output = efi_disk_uuids[i]
                    /\ mounts[i].args[2] = <<disks[i], "-part1">>
                    /\ names[i] = efi_disk_uuids[i]
        /\ Returned("write_fstab") =>
              /\ Len(FstabLog) = 1
              /\ LET lines == FstabEfiLines IN
                 /\ Len(lines) = K
                 /\ \A i \in 1..K :
                       lines[i] =
                           <<"/dev/disk/by-uuid/">> \o names[i]
                           \o <<" ", "/boot/efis/">> \o names[i]
                           \o <<" ", "vfat umask=0077,shortname=winnt,nofail 0 2">>

\* a live run with two root-pool disks whose EFI partitions have different
\* UUIDs, after write_fstab has returned
C10_Witness ==
    /\ ~CONFIG.dry_mode
    /\ Len(CONFIG.root_pool.disks) = 2
    /\ Returned("write_fstab")
    /\ Len(efi_disk_uuids) = 2
    /\ efi_disk_uuids[1] # efi_disk_uuids[2]
    /\ Len(FstabLog) = 1
    /\ \E i \in 1..Len(effects) :
          effects[i].prim = "cat_to_file"
          /\ effects[i].args = <<NEW_SYSTEM_ROOT \o <<"/etc/fstab">>>>

\* ------------------------------------------------------------------------
\* C11
\* ------------------------------------------------------------------------
IsZfs(e, verb) == IsCommand(e, "zfs") /\ Len(e.args) >= 2 /\ e.args[2] = <<verb>>

IsZpool(e, verb) == IsCommand(e, "zpool") /\ Len(e.args) >= 2 /\ e.args[2] = <<verb>>

IsSetBootfs(e) ==
    IsZpool(e, "set") /\ Len(e.args) = 4 /\ e.args[3][1] = "bootfs="

\* positions in the log of the file system steps: zfs create, zfs mount and
\* the setting of bootfs
FsSteps ==
    SelectSeq([k \in 1..Len(log) |-> k],
              LAMBDA k : IsZfs(log[k], "create") \/ IsZfs(log[k], "mount")
                         \/ IsSetBootfs(log[k]))

\* the record creates the file system of the root pool with exactly these
\* properties
CreatesFs(e, filesystem, properties) ==
    /\ IsZfs(e, "create")
    /\ LastArg(e) = <<CONFIG.root_pool.name, "/">> \o filesystem
    /\ SubSeq(e.args, 3, Len(e.args) - 1)
          = Flatten([i \in 1..Len(properties) |-> <<<<"-o">>, <<properties[i]>>>>])

\* C11: the file system steps of a run are, in this order: create ROOT
\* (mountpoint none), create ROOT/fedora_<suffix> (mountpoint /, canmount
\* noauto), mount that file system, set it as bootfs of the root pool, create
\* home (mountpoint /home), home/root (mountpoint /root), home/<user> for
\* every user in configuration order; all are on the root pool, each comes
\* after the creation of every pool, and when
\* create_zfs_pools_and_file_systems has returned all of them are there.
C11_FileSystemsInOrder ==
    LET at == FsSteps
        step == [i \in 1..Len(at) |-> log[at[i]]]
        rp == CONFIG.root_pool.name
        users == CONFIG.users
        created == SelectSeq([k \in 1..Len(log) |-> k],
                             LAMBDA k : IsZpool(log[k], "create"))
    IN  /\ Len(step) <= 6 + Len(users)
        /\ Len(step) > 0 =>
              /\ Len(created) = Len(CONFIG_POOLS)
              /\ created[Len(created)] < at[1]
        /\ \A i \in 1..Len(step) :
              /\ step[i].fn = "create_zfs_pools_and_file_systems"
              /\ CASE i = 1 -> CreatesFs(step[i], <<"ROOT">>, <<"mountpoint=none">>)
                   [] i = 2 ->
                        /\ IsZfs(step[i], "create")
                        /\ Len(LastArg(step[i])) = 4
                        /\ SubSeq(LastArg(step[i]), 1, 3) = <<rp, "/", "ROOT/fedora_">>
                        /\ HasArg(step[i], <<"mountpoint=/">>)
                        /\ HasArg(step[i], <<"canmount=noauto">>)
                   [] i = 3 ->
                        /\ IsZfs(step[i], "mount")
                        /\ step[i].args = <<<<"zfs">>, <<"mount">>, LastArg(step[2])>>
                   [] i = 4 ->
                        /\ IsSetBootfs(step[i])
                        /\ step[i].args[3] = <<"bootfs=">> \o LastArg(step[2])
                        /\ step[i].args[4] = <<rp>>
                   [] i = 5 -> CreatesFs(step[i], <<"home">>, <<"mountpoint=/home">>)
                   [] i = 6 -> CreatesFs(step[i], <<"home/root">>, <<"mountpoint=/root">>)
                   [] OTHER -> CreatesFs(step[i], <<"home/", users[i - 6].name>>, <<>>)
        /\ Returned("create_zfs_pools_and_file_systems") =>
              Len(step) = 6 + Len(users)

\* a live run with a data pool and two users in which
\* create_zfs_pools_and_file_systems has returned
C11_Witness ==
    /\ ~CONFIG.dry_mode
    /\ Len(CONFIG.data_pools) = 1
    /\ Len(CONFIG.users) = 2
    /\ Returned("create_zfs_pools_and_file_systems")
    /\ Len(FsSteps) = 8
    /\ Len(SelectSeq(effects, LAMBDA e : IsZfs(e, "create"))) = 6

\* ------------------------------------------------------------------------
\* C12
\* ------------------------------------------------------------------------
IsUnder(path, dir) == Len(path) >= Len(dir) /\ SubSeq(path, 1, Len(dir)) = dir

HasOption(e, option) == \E i \in 1..Len(e.args) : e.args[i][1] = option

IsRunOf(e, programs) ==
    e.prim \in {"sys", "sys_output"} /\ e.args # <<>> /\ Len(e.args[1]) = 1
    /\ e.args[1][1] \in programs

\* The phases of a run up to the entry of the isolated root, and the phase
\* a log record belongs to by what it does (0: a record of none of them).
PhaseNames ==
    <<"validate", "disable SELinux enforcement", "detect OS version",
      "install ZFS into the live environment", "discard/zero disks",
      "partition root-pool disks", "create pools and file systems",
      "provision EFI boot", "bind-mount dev/proc/sys",
      "install packages into the staged root", "write configuration",
      "copy hostid and key files", "first-boot configuration and services",
      "enter the isolated root">>

Phase(e) ==
    CASE IsRunOf(e, {"setenforce"}) -> 2
      [] e.prim = "sys_output" /\ e.args = <<<<"source /etc/os-release; echo $VERSION_ID">>>> -> 3
      [] IsRunOf(e, {"dnf", "sed"}) ->
            IF HasOption(e, "--installroot=") \/ IsUnder(LastArg(e), NEW_SYSTEM_ROOT)
            THEN 10 ELSE 4
      [] IsRunOf(e, {"modprobe"}) \/ (IsRunOf(e, {"rpm"}) /\ HasArg(e, <<"--erase">>)) -> 4
      [] IsRunOf(e, {"blkdiscard", "dd"}) -> 5
      [] IsRunOf(e, {"sgdisk"}) \/ e.prim = "sleep" -> 6
      [] IsRunOf(e, {"zgenhostid"}) \/ IsZpool(e, "create") \/ IsSetBootfs(e)
         \/ IsZfs(e, "create") \/ IsZfs(e, "mount") \/ e.prim = "chmod" -> 7
      [] e.prim = "cat_to_file" ->
            IF IsUnder(e.args[1], NEW_SYSTEM_ROOT) THEN 11 ELSE 7
      [] IsRunOf(e, {"curl", "mkfs.fat", "blkid", "efibootmgr"}) -> 8
      [] IsRunOf(e, {"mount"}) -> IF HasArg(e, <<"--rbind">>) THEN 9 ELSE 8
      [] e.prim = "mkdir" ->
            IF IsUnder(e.args[1], efis_dir) THEN 8
            ELSE IF e.args[1] \in {NEW_SYSTEM_ROOT \o <<"/", d>> : d \in {"dev", "proc", "sys"}}
                 THEN 9 ELSE 11
      [] e.prim = "copy2" -> IF IsUnder(e.args[2], efis_dir) THEN 8 ELSE 12
      [] IsZfs(e, "list") -> 11
      [] e.prim = "rm" \/ IsRunOf(e, {"systemd-firstboot", "systemctl"}) -> 13
      [] e.prim = "chroot" -> 14
      [] OTHER -> 0

\* the records of the log up to the entry of the isolated root, without the
\* lines of captured output
LogUpToChroot ==
    LET commands == Logged(LAMBDA e : e.prim # "#>")
        entered == {k \in 1..Len(commands) : commands[k].prim = "chroot"}
    IN  IF entered = {} THEN commands
        ELSE SubSeq(commands, 1, CHOOSE k \in entered : \A j \in entered : k <= j)

\* C12: every record logged up to the entry of the isolated root belongs to
\* one of the phases 2..14, and the phases of consecutive records never go
\* back, so each phase is one uninterrupted block in the order of the list;
\* nothing is logged before the validation has passed; once the isolated root
\* is entered every phase has occurred; each EFI partition is formatted
\* before it is mounted.
C12_PhasesInOrder ==
    \A records \in {LogUpToChroot} :
    \A phase \in {[k \in 1..Len(records) |-> Phase(records[k])]} :
        /\ log # <<>> => (~Defective /\ pc \notin {"main", "check_config_for_errors"})
        /\ \A k \in 1..Len(records) : phase[k] \in 2..Len(PhaseNames)
        /\ \A k \in 1..(Len(records) - 1) : phase[k] <= phase[k + 1]
        /\ Entries > 0 => {phase[k] : k \in 1..Len(records)} = 2..Len(PhaseNames)
        /\ \A k \in 1..Len(records) :
              (IsRunOf(records[k], {"mount"}) /\ phase[k] = 8) =>
                  \E j \in 1..(k - 1) :
                      /\ IsRunOf(records[j], {"mkfs.fat"})
                      /\ LastArg(records[j]) = records[k].args[2]

\* a live run with swap, two root-pool disks, a data pool and passwords that
\* has entered the isolated root
C12_Witness ==
    /\ ~CONFIG.dry_mode
    /\ CONFIG.swap_size # ""
    /\ Len(CONFIG.root_pool.disks) = 2
    /\ Len(CONFIG.data_pools) = 1
    /\ CONFIG.root_pool.password # ""
    /\ Entries = 1
    /\ in_chroot
    /\ root = NEW_SYSTEM_ROOT

\* ------------------------------------------------------------------------
\* C13
\* ------------------------------------------------------------------------
\* the last operation performed in live mode failed: the program exited
\* non-zero or the OS call failed
StepFailed == last_call.prim # "none" /\ last_call.rc # 0

\* nothing is left to run but the exit of the isolated root
OnlyExitLeft == \A k \in 1..Len(pending) : pending[k].prim = "exit_chroot"

\* C13: in live mode, when a step has failed the run has stopped: the
\* failure is raised and nothing of the sequence is left to run, at most the
\* exit of the isolated root when the failure happened inside it; a run that
\* has stopped on a failure has issued no pool destroy, unmount or export and
\* has removed no key file.
C13_FailFastNoRollback ==
    /\ StepFailed => (last_call.raised /\ exc # "none" /\ OnlyExitLeft)
    /\ exc # "none" =>
          /\ OnlyExitLeft
          /\ pending # <<>> => in_chroot
          /\ \A k \in 1..Len(log) :
                /\ ~IsZpool(log[k], "destroy")
                /\ ~IsZpool(log[k], "export")
                /\ ~IsRunOf(log[k], {"umount"})
                /\ log[k].prim = "rm" => ~IsUnder(log[k].args[1], <<"/etc/zfs/">>)

\* ------------------------------------------------------------------------
\* C14
\* ------------------------------------------------------------------------
\* C14: when the script is run live after a dry run of the same
\* configuration, on a host whose programs print what the placeholders say,
\* then as long as nothing has failed the live run has logged the same
\* records in the same order as the dry run did, and once completed it has
\* logged all of them.
C14_SameTranscriptInBothModes ==
    (transcript # <<>> /\ ~CONFIG.dry_mode /\ host = "placeholders" /\ exc = "none") =>
        /\ Len(log) <= Len(transcript)
        /\ log = SubSeq(transcript, 1, Len(log))
        /\ Completed => log = transcript

\* ------------------------------------------------------------------------
\* C15
\* ------------------------------------------------------------------------
\* positions in the log of the records that satisfy P
Positions(P(_)) == SelectSeq([k \in 1..Len(log) |-> k], LAMBDA k : P(log[k]))

IsSettlePause(e) == e.prim = "sleep" /\ e.args = <<<<"2">>>>

\* the record names a partition device <disk>-partN
UsesPartition(e) ==
    \E i \in 1..Len(e.args) :
        Len(e.args[i]) = 2 /\ e.args[i][2] \in {"-part1", "-part2", "-part3"}

\* C15: the pause of 2 seconds is logged at most once, and exactly once when
\* partition_root_pool_disks has returned; when it is logged, the partition
\* commands of all root-pool disks are before it and none after it; every
\* record that names a partition device (zpool create on <disk>-partN,
\* mkfs.fat, blkid and mount on <disk>-part1) comes after the pause.
C15_SettlePauseOnceAfterPartitioning ==
    \A pauses \in {Positions(IsSettlePause)} :
    \A partitioning \in {Positions(LAMBDA e : IsRunOf(e, {"sgdisk"}))} :
    \A uses \in {Positions(UsesPartition)} :
        /\ Len(pauses) <= 1
        /\ Returned("partition_root_pool_disks") => Len(pauses) = 1
        /\ Len(pauses) = 1 =>
              /\ Len(partitioning)
                    = Len(CONFIG.root_pool.disks) * Len(PartitionPlan)
              /\ partitioning[Len(partitioning)] < pauses[1]
        /\ uses # <<>> => (Len(pauses) = 1 /\ pauses[1] < uses[1])

\* a live run with two root-pool disks that has paused once and has since
\* created the root pool and formatted and mounted both EFI partitions
C15_Witness ==
    /\ ~CONFIG.dry_mode
    /\ Len(CONFIG.root_pool.disks) = 2
    /\ Len(SelectSeq(effects, IsSettlePause)) = 1
    /\ Len(SelectSeq(effects, LAMBDA e : IsRunOf(e, {"mkfs.fat"}) /\ UsesPartition(e))) = 2
    /\ Len(SelectSeq(effects, LAMBDA e : IsRunOf(e, {"mount"}) /\ UsesPartition(e))) = 2
    /\ \E k \in 1..Len(effects) : IsZpool(effects[k], "create") /\ UsesPartition(effects[k])

\* ------------------------------------------------------------------------
\* C16
\* ------------------------------------------------------------------------
IsSnapshot(e) ==
    /\ IsZfs(e, "snapshot")
    /\ HasArg(e, <<"-r">>)
    /\ IsUnder(LastArg(e), <<CONFIG.root_pool.name, "@">>)

IsUnmount(e) ==
    e.prim = "sys"
    /\ e.args = <<<<"umount">>, <<"--recursive">>, <<"--lazy">>, NEW_SYSTEM_ROOT>>

IsTeardownPause(e) == e.prim = "sleep" /\ e.args = <<<<"10">>>>

IsExport(e) == e.prim = "sys" /\ e.args = <<<<"zpool">>, <<"export">>, <<"-a">>>>

\* C16: the recursive snapshot of the root pool, the recursive lazy unmount
\* of the staged root, the pause and the export of all pools are each logged
\* at most once and in this order, each only after the one before it; the
\* snapshot only after the isolated root has been left; nothing is logged
\* after the export; a completed run has logged all four; no other zfs
\* snapshot, umount or zpool export is ever logged.
C16_TeardownOrder ==
    \A snapshots \in {Positions(IsSnapshot)} :
    \A unmounts \in {Positions(IsUnmount)} :
    \A pauses \in {Positions(IsTeardownPause)} :
    \A exports \in {Positions(IsExport)} :
    \A exits \in {Positions(LAMBDA e : e.prim = "exit_chroot")} :
        /\ Len(snapshots) <= 1 /\ Len(unmounts) <= 1
        /\ Len(pauses) <= 1 /\ Len(exports) <= 1
        /\ snapshots # <<>> => (Len(exits) = 1 /\ exits[1] < snapshots[1] /\ ~in_chroot)
        /\ unmounts # <<>> => (snapshots # <<>> /\ snapshots[1] < unmounts[1])
        /\ pauses # <<>> => (unmounts # <<>> /\ unmounts[1] < pauses[1])
        /\ exports # <<>> =>
              /\ pauses # <<>> /\ pauses[1] < exports[1]
              /\ exports[1] = Len(log)
              /\ pending = <<>>
        /\ Completed => exports # <<>>
        /\ Len(Positions(LAMBDA e : IsZfs(e, "snapshot") \/ IsRunOf(e, {"umount"})
                                    \/ IsZpool(e, "export")))
              = Len(snapshots) + Len(unmounts) + Len(exports)

\* a completed live run: the four operations of the teardown were performed
\* after the isolated root was left
C16_Witness ==
    /\ ~CONFIG.dry_mode
    /\ Completed
    /\ root = OLD_ROOT
    /\ Len(SelectSeq(effects, LAMBDA e : IsSnapshot(e) \/ IsUnmount(e)
                                         \/ IsTeardownPause(e) \/ IsExport(e))) = 4
    /\ IsExport(effects[Len(effects)])

\* ------------------------------------------------------------------------
\* C17
\* ------------------------------------------------------------------------
\* The steps of the isolated root, and the step a log record belongs to by
\* what it does (0: none of them).
ScopeStepNames ==
    <<"SELinux relabel request", "pin the cachefile of every pool",
      "kernel-install for every installed kernel", "account setup">>

ScopeStep(e) ==
    CASE IsRunOf(e, {"fixfiles"}) -> 1
      [] IsZpool(e, "set") /\ HasArg(e, <<"cachefile=/etc/zfs/zpool.cache">>) -> 2
      [] (IsRunOf(e, {"rpm"}) /\ HasArg(e, <<"--query">>))
         \/ IsRunOf(e, {"kernel-install"}) -> 3
      [] e.prim \in {"passwd", "copytree", "chown"}
         \/ IsRunOf(e, {"passwd", "useradd", "restorecon"}) \/ IsZfs(e, "allow")
         \/ (e.prim = "chmod" /\ IsUnder(e.args[2], <<"/home/">>)) -> 4
      [] OTHER -> 0

\* the log records between the entry and the exit of the isolated root
ScopeLog ==
    LET entered == Positions(LAMBDA e : e.prim = "chroot")
        left == Positions(LAMBDA e : e.prim = "exit_chroot")
    IN  IF entered = <<>> THEN <<>>
        ELSE SubSeq(log, entered[1] + 1,
                    IF left = <<>> THEN Len(log) ELSE left[1] - 1)

\* the log records outside the isolated root
OutsideLog ==
    LET entered == Positions(LAMBDA e : e.prim = "chroot")
        left == Positions(LAMBDA e : e.prim = "exit_chroot")
    IN  IF entered = <<>> THEN log
        ELSE SubSeq(log, 1, entered[1])
             \o (IF left = <<>> THEN <<>> ELSE SubSeq(log, left[1], Len(log)))

\* the isolated root has been left and nothing in it raised
ScopeDone == Exits = 1 /\ (exc = "none" \/ ~(pc \in {"chroot", "fixfiles_and_cachefile",
                 "compile_kernel_dkms_modules_and_generate_initramfs", "setup_users"}))

\* C17: every command logged between the entry and the exit of the isolated
\* root is one of the four steps, and the steps of consecutive commands never
\* go back; no command logged outside is one of them; the cachefile is
\* pinned by one command per pool, root pool first, then the data pools in
\* order; kernel-install is run once per kernel that rpm reported, in the
\* order reported; the accounts are those of root and then of every user in
\* order; when the isolated root has been left without a failure all of these
\* are there.
C17_ScopedStepsOnly ==
    \A inside \in {ScopeLog} :
    \A commands \in {SelectSeq(inside, LAMBDA e : e.prim # "#>")} :
    \A pins \in {SelectSeq(commands, LAMBDA e : ScopeStep(e) = 2)} :
    \A reported \in {SelectSeq(inside, LAMBDA e : e.prim = "#>")} :
    \A installs \in {SelectSeq(commands, LAMBDA e : IsRunOf(e, {"kernel-install"}))} :
    \A adds \in {SelectSeq(commands, LAMBDA e : IsRunOf(e, {"useradd"}))} :
    \A passwords \in {SelectSeq(commands,
                        LAMBDA e : e.prim = "passwd" \/ IsRunOf(e, {"passwd"}))} :
        /\ \A k \in 1..Len(commands) : ScopeStep(commands[k]) \in 1..Len(ScopeStepNames)
        /\ \A k \in 1..(Len(commands) - 1) :
              ScopeStep(commands[k]) <= ScopeStep(commands[k + 1])
        /\ \A outside \in {OutsideLog} :
              \A k \in 1..Len(outside) : ScopeStep(outside[k]) = 0
        /\ Len(SelectSeq(commands, LAMBDA e : ScopeStep(e) = 1)) <= 1
        /\ Len(pins) <= Len(CONFIG_POOLS)
        /\ \A p \in 1..Len(pins) : LastArg(pins[p]) = <<CONFIG_POOLS[p].name>>
        /\ Len(installs) <= Len(reported)
        /\ \A k \in 1..Len(installs) :
              <<"kernel-">> \o installs[k].args[3] = reported[k].args[1]
        /\ Len(adds) <= Len(CONFIG.users)
        /\ \A u \in 1..Len(adds) : LastArg(adds[u]) = <<CONFIG.users[u].name>>
        /\ Len(passwords) <= 1 + Len(CONFIG.users)
        /\ \A u \in 1..Len(passwords) :
              HasArg(passwords[u], <<IF u = 1 THEN "root" ELSE CONFIG.users[u - 1].name>>)
        /\ ScopeDone =>
              /\ Len(SelectSeq(commands, LAMBDA e : ScopeStep(e) = 1)) = 1
              /\ Len(pins) = Len(CONFIG_POOLS)
              /\ Len(reported) > 0
              /\ Len(installs) = Len(reported)
              /\ Len(adds) = Len(CONFIG.users)
              /\ Len(passwords) = 1 + Len(CONFIG.users)

\* a live run with a data pool and two users that went through the isolated
\* root without a failure and installed two kernels
C17_Witness ==
    /\ ~CONFIG.dry_mode
    /\ Len(CONFIG.data_pools) = 1
    /\ Len(CONFIG.users) = 2
    /\ ScopeDone
    /\ exc = "none"
    /\ root = OLD_ROOT
    /\ Len(SelectSeq(effects, LAMBDA e : IsRunOf(e, {"kernel-install"}))) = 2
    /\ Len(SelectSeq(effects, LAMBDA e : e.prim = "copytree")) = 2

\* ------------------------------------------------------------------------
\* C18
\* ------------------------------------------------------------------------
PartitionSuffix == <<"-part1", "-part2", "-part3">>

\* the arguments of a command that name a disk or a partition of a disk
DeviceArgs(e, names) == SelectSeq(e.args, LAMBDA a : a # <<>> /\ a[1] \in names)

\* the position, among the partitions the logged sgdisk commands created on
\* the disk, of the first one of the kind (0: there is none)
PartitionOrdinal(sgdisks, disk, kind) ==
    LET made == SelectSeq(sgdisks, LAMBDA e : /\ LastArg(e) = <<disk>>
                                              /\ SgdiskKind(e) \notin {"wipe", "other"})
        ofKind == {k \in 1..Len(made) : SgdiskKind(made[k]) = kind}
    IN  IF ofKind = {} THEN 0 ELSE CHOOSE k \in ofKind : \A j \in ofKind : k <= j

PoolCreates == Logged(LAMBDA e : IsZpool(e, "create"))

RootPoolCreates == SelectSeq(PoolCreates, LAMBDA e : HasArg(e, <<CONFIG.root_pool.name>>))

CrypttabLog ==
    Logged(LAMBDA e : e.prim = "cat_to_file"
                      /\ e.args = <<NEW_SYSTEM_ROOT \o <<"/etc/crypttab">>>>)

\* the partition devices the lines of a logged crypttab name
CrypttabDevices(e) == [i \in 1..Len(e.lines) |-> SubSeq(e.lines[i], 4, 5)]

\* the commands of the EFI steps that take a device: mkfs.fat, blkid, mount
EfiDeviceLog ==
    Logged(LAMBDA e : /\ e.fn = "setup_efi_partitions_and_install_zfsbootmenu"
                      /\ IsRunOf(e, {"mkfs.fat", "blkid", "mount"}))

\* C18: the creation command of the root pool names, for the i-th root-pool
\* disk, the partition whose number is the position at which the sgdisk
\* commands created the pool-member partition on that disk, which is 3 when
\* swap_size is non-empty and 2 otherwise; every mkfs.fat, blkid and mount of
\* the EFI steps names partition 1 of a root-pool disk; a crypttab is logged
\* only when swap_size is non-empty, and its i-th line names partition 2 of
\* the i-th root-pool disk, the position at which the swap partition was
\* created, and no partition it names is a member of the root pool; the
\* creation command of a data pool names its disks whole.
C18_PartitionNumbersAgree ==
    \A disks \in {CONFIG.root_pool.disks} :
    \A names \in {Range(AllDisks)} :
    \A sgdisks \in {SgdiskLog} :
    \A pools \in {PoolCreates} :
    \A creates \in {SelectSeq(pools, LAMBDA e : HasArg(e, <<CONFIG.root_pool.name>>))} :
    \A crypttabs \in {CrypttabLog} :
        /\ \A c \in 1..Len(creates) :
              /\ DeviceArgs(creates[c], names) =
                    [i \in 1..Len(disks) |->
                        <<disks[i],
                          PartitionSuffix[PartitionOrdinal(sgdisks, disks[i], "pool member")]>>]
              /\ \A i \in 1..Len(disks) :
                    PartitionOrdinal(sgdisks, disks[i], "pool member")
                        = IF CONFIG.swap_size # "" THEN 3 ELSE 2
              /\ \A t \in 1..Len(crypttabs) : \A l \in 1..Len(crypttabs[t].lines) :
                    ~HasArg(creates[c], CrypttabDevices(crypttabs[t])[l])
        /\ \A efi \in {EfiDeviceLog} : \A k \in 1..Len(efi) :
              /\ Len(DeviceArgs(efi[k], names)) = 1
              /\ \E i \in 1..Len(disks) :
                    /\ DeviceArgs(efi[k], names)[1] = <<disks[i], PartitionSuffix[1]>>
                    /\ PartitionOrdinal(sgdisks, disks[i], "EFI") = 1
        /\ crypttabs # <<>> => CONFIG.swap_size # ""
        /\ \A t \in 1..Len(crypttabs) :
              /\ Len(crypttabs[t].lines) = Len(disks)
              /\ \A i \in 1..Len(disks) :
                    /\ CrypttabDevices(crypttabs[t])[i] = <<disks[i], PartitionSuffix[2]>>
                    /\ PartitionOrdinal(sgdisks, disks[i], "swap") = 2
        /\ \A p \in 1..Len(CONFIG.data_pools) :
              \A k \in 1..Len(pools) :
                  HasArg(pools[k], <<CONFIG.data_pools[p].name>>) =>
                      DeviceArgs(pools[k], names)
                          = [i \in 1..Len(CONFIG.data_pools[p].disks) |->
                                <<CONFIG.data_pools[p].disks[i]>>]

\* a live run with swap, two root-pool disks and a data pool that created
\* the pools, went through the EFI steps and wrote the crypttab
C18_Witness ==
    /\ ~CONFIG.dry_mode
    /\ CONFIG.swap_size # ""
    /\ Len(CONFIG.root_pool.disks) = 2
    /\ Len(CONFIG.data_pools) = 1
    /\ Returned("write_crypttab")
    /\ Len(RootPoolCreates) = 1
    /\ Len(EfiDeviceLog) = 6
    /\ Len(CrypttabLog) = 1
    /\ \E k \in 1..Len(effects) : CreatesPool(effects[k], CONFIG.data_pools[1])

\* ------------------------------------------------------------------------
\* C19
\* ------------------------------------------------------------------------
\* the position of the first argument of the command that is the pool's name
NamePosition(e, pool) ==
    CHOOSE n \in 1..Len(e.args) :
        e.args[n] = <<pool.name>> /\ \A j \in 1..(n - 1) : e.args[j] # <<pool.name>>

\* the command has the option followed by the value
HasOptionValue(e, option, value) ==
    \E i \in 1..(Len(e.args) - 1) : e.args[i] = <<option>> /\ e.args[i + 1] = value

\* C19: the k-th zpool create of a run creates the k-th pool of the root pool
\* followed by the data pools in configuration order, and there are no more
\* of them than pools, and exactly as many once
\* create_zfs_pools_and_file_systems has returned; the command of the root
\* pool has -R with the staged root and that of a data pool has no -R; in
\* each the arguments from the pool's name on are the name, then the kind
\* when the kind is not 'single', then one argument per disk of the pool, in
\* the pool's order, that begins with the disk.
C19_PoolCreationOrderAndShape ==
    \A pools \in {CONFIG_POOLS} :
    \A creates \in {PoolCreates} :
        /\ Len(creates) <= Len(pools)
        /\ Returned("create_zfs_pools_and_file_systems") => Len(creates) = Len(pools)
        /\ \A k \in 1..Len(creates) :
              \A e \in {creates[k]} : \A pool \in {pools[k]} :
                  /\ HasArg(e, <<pool.name>>)
                  /\ IF k = 1 THEN HasOptionValue(e, "-R", NEW_SYSTEM_ROOT)
                     ELSE ~HasArg(e, <<"-R">>)
                  /\ \A n \in {NamePosition(e, pool)} :
                     \A kind \in {IF pool.kind # "single" THEN 1 ELSE 0} :
                        /\ Len(e.args) = n + kind + Len(pool.disks)
                        /\ kind = 1 => e.args[n + 1] = <<pool.kind>>
                        /\ \A i \in 1..Len(pool.disks) :
                              e.args[n + kind + i][1] = pool.disks[i]
                        /\ \A j \in 1..Len(e.args) :
                              j # n + 1 => e.args[j] \notin {<<x>> : x \in Kinds}

\* a live run with two data pools, mirrors among the pools and single ones,
\* after all three pools have been created
C19_Witness ==
    /\ ~CONFIG.dry_mode
    /\ Len(CONFIG.data_pools) = 2
    /\ CONFIG.root_pool.kind = "mirror"
    /\ CONFIG.data_pools[1].kind = "single"
    /\ CONFIG.data_pools[2].kind = "mirror"
    /\ Returned("create_zfs_pools_and_file_systems")
    /\ Len(SelectSeq(effects, LAMBDA e : IsZpool(e, "create"))) = 3

\* ------------------------------------------------------------------------
\* C20
\* ------------------------------------------------------------------------
\* the lines of a logged fstab that mount swap
FstabSwapLines(e) ==
    SelectSeq(e.lines, LAMBDA l : \E t \in 1..Len(l) : l[t] = "swap")

\* the name of the mapped device a crypttab line defines: its first field
CrypttabName(line) ==
    LET blank == CHOOSE t \in 1..Len(line) :
                     line[t] = " " /\ \A j \in 1..(t - 1) : line[j] # " "
    IN  SubSeq(line, 1, blank - 1)

\* the device an fstab line mounts: its first field
FstabDevice(line) == CrypttabName(line)

\* C20: at most one crypttab and one fstab are logged.  When swap_size is
\* non-empty and the root pool has N disks, a crypttab is logged once
\* write_crypttab has returned; a logged crypttab has exactly N lines, the
\* i-th being "cryptswap<i> <i-th root-pool disk>-part2 /dev/urandom" and the
\* swap options; a logged fstab has exactly N swap lines, the i-th mounting
\* /dev/mapper/cryptswap<i>, the device of the name the i-th crypttab line
\* defines.  When swap_size is empty no crypttab is logged and a logged
\* fstab has no swap line.  In live mode the files written are the ones
\* logged.
C20_SwapArtifacts ==
    \A disks \in {CONFIG.root_pool.disks} :
    \A crypttabs \in {CrypttabLog} :
    \A fstabs \in {FstabLog} :
        /\ Len(crypttabs) <= 1 /\ Len(fstabs) <= 1
        /\ CONFIG.swap_size = "" =>
              /\ crypttabs = <<>>
              /\ \A f \in 1..Len(fstabs) : FstabSwapLines(fstabs[f]) = <<>>
              /\ \A k \in 1..Len(effects) :
                    ~(effects[k].prim = "cat_to_file"
                      /\ effects[k].args = <<NEW_SYSTEM_ROOT \o <<"/etc/crypttab">>>>)
        /\ CONFIG.swap_size # "" =>
              /\ Returned("write_crypttab") => Len(crypttabs) = 1
              /\ \A c \in 1..Len(crypttabs) :
                    /\ Len(crypttabs[c].lines) = Len(disks)
                    /\ \A i \in 1..Len(disks) :
                          /\ CrypttabName(crypttabs[c].lines[i]) = <<"cryptswap", ToString(i)>>
                          /\ SubSeq(crypttabs[c].lines[i], 3, 6)
                                = <<" ", disks[i], "-part2", " /dev/urandom ">>
                    /\ ~CONFIG.dry_mode =>
                          \E k \in 1..Len(effects) :
                              /\ effects[k].prim = "cat_to_file"
                              /\ effects[k].args = crypttabs[c].args
                              /\ splitlines(effects[k].contents) = crypttabs[c].lines
              /\ \A f \in 1..Len(fstabs) :
                    \A swaps \in {FstabSwapLines(fstabs[f])} :
                        /\ Len(swaps) = Len(disks)
                        /\ \A i \in 1..Len(disks) :
                              FstabDevice(swaps[i])
                                  = <<"/dev/mapper/", "cryptswap", ToString(i)>>
                        /\ crypttabs # <<>>
                        /\ \A i \in 1..Len(disks) :
                              FstabDevice(swaps[i])
                                  = <<"/dev/mapper/">> \o CrypttabName(crypttabs[1].lines[i])

\* a live run with swap and two root-pool disks that wrote both files
C20_Witness ==
    /\ ~CONFIG.dry_mode
    /\ CONFIG.swap_size # ""
    /\ Len(CONFIG.root_pool.disks) = 2
    /\ Returned("write_fstab")
    /\ Len(CrypttabLog) = 1
    /\ Len(FstabLog) = 1
    /\ Len(FstabSwapLines(FstabLog[1])) = 2
    /\ Len(SelectSeq(effects, LAMBDA e : e.prim = "cat_to_file"
                        /\ e.args[1] \in {NEW_SYSTEM_ROOT \o <<"/etc/crypttab">>,
                                          NEW_SYSTEM_ROOT \o <<"/etc/fstab">>})) = 2

\* ------------------------------------------------------------------------
\* C21
\* ------------------------------------------------------------------------
\* the key files of the pools that have a password, in pool order
KeyFilesOfEncryptedPools ==
    LET encrypted == SelectSeq(CONFIG_POOLS, LAMBDA pool : pool.password # "")
    IN  [p \in 1..Len(encrypted) |-> <<"/etc/zfs/", encrypted[p].name, ".key">>]

\* positions in the records of the copies into /etc/zfs of the staged root
KeyFileCopies(records) ==
    SelectSeq([k \in 1..Len(records) |-> k],
              LAMBDA k : /\ records[k].prim = "copy2"
                         /\ records[k].args[2] = NEW_SYSTEM_ROOT \o <<"/etc/zfs">>)

DracutLog ==
    Logged(LAMBDA e : e.prim = "cat_to_file"
                      /\ e.args = <<NEW_SYSTEM_ROOT \o <<"/etc/dracut.conf.d/zfs.conf">>>>)

IsInstallItems(line) == line # <<>> /\ line[1] = "install_items+=\""

\* the files an install_items line names: the fields between its quotes
InstallItems(line) ==
    [i \in 1..((Len(line) - 2) \div 4) |-> SubSeq(line, 4 * i - 1, 4 * i + 1)]

\* in the records, every copy of a key file comes after the record that
\* writes the file
CopiedAfterWritten(records) ==
    \A copies \in {KeyFileCopies(records)} :
        \A c \in 1..Len(copies) :
            \E w \in 1..(copies[c] - 1) :
                /\ records[w].prim = "cat_to_file"
                /\ records[w].fn = "create_zfs_pools_and_file_systems"
                /\ records[w].args = <<records[copies[c]].args[1]>>

\* C21: once create_zfs_pools_and_file_systems has returned, the list it
\* returned holds the key file of every pool with a password, in pool order,
\* and nothing else.  The copies into /etc/zfs of the staged root copy the
\* files of that list in order, all of them once the copying has returned,
\* and no other copy has a file of /etc/zfs as its source.  The dracut
\* configuration is logged at most once; it has an install_items line
\* exactly when some pool has a password, and that line names the files of
\* the list, in order.  Every copy comes after the record of pool creation
\* that wrote the file, in the log and in the operations performed.
C21_KeyFilePropagation ==
    \A files \in {KeyFilesOfEncryptedPools} :
    \A copies \in {KeyFileCopies(log)} :
    \A dracuts \in {DracutLog} :
        /\ Returned("create_zfs_pools_and_file_systems") => pool_key_files = files
        /\ Len(copies) <= Len(files)
        /\ \A c \in 1..Len(copies) : log[copies[c]].args[1] = files[c]
        /\ Returned("copy_hostid_and_key_files") => Len(copies) = Len(files)
        /\ \A k \in 1..Len(log) :
              (log[k].prim = "copy2" /\ log[k].args[1][1] = "/etc/zfs/") =>
                  \E c \in 1..Len(copies) : copies[c] = k
        /\ Len(dracuts) <= 1
        /\ Returned("write_dracut_zfs_conf") => Len(dracuts) = 1
        /\ \A d \in 1..Len(dracuts) :
              \A items \in {SelectSeq(dracuts[d].lines, IsInstallItems)} :
                  /\ Len(items) = IF files = <<>> THEN 0 ELSE 1
                  /\ \A i \in 1..Len(items) :
                        /\ (Len(items[i]) - 2) % 4 = 0
                        /\ InstallItems(items[i]) = files
        /\ CopiedAfterWritten(log)
        /\ CopiedAfterWritten(effects)

\* a live run in which the root pool and the data pool have a password,
\* after both key files have been copied
C21_Witness ==
    /\ ~CONFIG.dry_mode
    /\ Len(CONFIG.data_pools) = 1
    /\ \A p \in 1..Len(CONFIG_POOLS) : CONFIG_POOLS[p].password # ""
    /\ Returned("copy_hostid_and_key_files")
    /\ Len(pool_key_files) = 2
    /\ Len(KeyFileCopies(effects)) = 2
    /\ Len(DracutLog) = 1

\* ------------------------------------------------------------------------
\* C22
\* ------------------------------------------------------------------------
BootStepNames ==
    <<"format the EFI partition", "read its UUID", "create the UUID-named directory",
      "mount the partition", "copy the boot-manager image",
      "register a firmware boot entry">>

\* the step of boot provisioning a log record is, by what it does (0: none)
BootStep(e) ==
    CASE IsRunOf(e, {"mkfs.fat"}) -> 1
      [] IsRunOf(e, {"blkid"}) -> 2
      [] e.prim = "mkdir" /\ IsUnder(e.args[1], efis_dir) -> 3
      [] IsRunOf(e, {"mount"}) /\ Len(e.args) = 3 /\ IsUnder(e.args[3], efis_dir) -> 4
      [] e.prim = "copy2" /\ IsUnder(e.args[2], efis_dir) -> 5
      [] IsRunOf(e, {"efibootmgr"}) -> 6
      [] OTHER -> 0

\* C22: the records of boot provisioning in the log are, for the root-pool
\* disks in disk order, the six steps format, read UUID, create directory,
\* mount, copy image, register boot entry, in this order, the six of one
\* disk before the first of the next; the format, the read and the mount
\* name partition 1 of the disk, the directory created is the one under
\* boot/efis named by the UUID read, the partition is mounted and the image
\* copied there, and the boot entry is registered for the disk and partition
\* 1.  There are no more of them than six per root-pool disk, and exactly
\* six per root-pool disk once the function has returned, so one boot entry
\* per root-pool disk; no boot entry names a disk of a data pool.
C22_BootProvisioningPerDisk ==
    \A disks \in {CONFIG.root_pool.disks} :
    \A per \in {Len(BootStepNames)} :
    \A at \in {Positions(LAMBDA e : BootStep(e) # 0)} :
        /\ Len(at) <= per * Len(disks)
        /\ Returned("setup_efi_partitions_and_install_zfsbootmenu") =>
              Len(at) = per * Len(disks)
        /\ \A k \in 1..Len(at) :
              \A e \in {log[at[k]]} :
              \A step \in {((k - 1) % per) + 1} :
              \A disk \in {disks[((k - 1) \div per) + 1]} :
                  /\ BootStep(e) = step
                  /\ e.fn = "setup_efi_partitions_and_install_zfsbootmenu"
                  /\ step \in {1, 2} => LastArg(e) = <<disk, "-part1">>
                  /\ step \in {3, 4, 5} =>
                        \A read \in {at[k - step + 2]} :
                            /\ log[read + 1].prim = "#>"
                            /\ e.args[IF step = 3 THEN 1 ELSE IF step = 4 THEN 3 ELSE 2]
                                  = efis_dir \o <<"/">> \o log[read + 1].args[1]
                  /\ step = 4 => e.args[2] = <<disk, "-part1">>
                  /\ step = 6 =>
                        /\ HasOptionValue(e, "--disk", <<disk>>)
                        /\ HasOptionValue(e, "--part", <<"1">>)
                        /\ \A p \in 1..Len(CONFIG.data_pools) :
                              \A d \in 1..Len(CONFIG.data_pools[p].disks) :
                                  ~HasArg(e, <<CONFIG.data_pools[p].disks[d]>>)

\* a live run with two root-pool disks and a data pool in which both disks
\* were provisioned and a boot entry registered for each
C22_Witness ==
    /\ ~CONFIG.dry_mode
    /\ Len(CONFIG.root_pool.disks) = 2
    /\ Len(CONFIG.data_pools) >= 1
    /\ Returned("setup_efi_partitions_and_install_zfsbootmenu")
    /\ Len(SelectSeq(effects, LAMBDA e : IsRunOf(e, {"efibootmgr"}))) = 2
    /\ Len(SelectSeq(effects, LAMBDA e : BootStep(e) # 0)) = 12

\* ------------------------------------------------------------------------
\* C23
\* ------------------------------------------------------------------------
\* the line defines PROPS with a value that is not empty
IsPropsDefinition(line) ==
    /\ Len(line) >= 3
    /\ line[1] = "PROPS=\""
    /\ line[Len(line)] = "\""

\* the script the function read is absent or has no such line
ScriptUnusable ==
    \/ ~zfs_properties_text.exists
    \/ \A i \in 1..Len(zfs_properties_text.lines) :
          ~IsPropsDefinition(zfs_properties_text.lines[i])

IsCacheFile(e) == e.prim = "cat_to_file" /\ IsUnder(e.args[1], zfs_list_cache_dir)

\* the record is of the cache step or of a step that follows it in main()
IsCacheStepOrLater(e) ==
    \/ (e.prim \in {"copy2", "rm", "chroot", "exit_chroot", "passwd", "copytree", "chown"}
        /\ ~(e.prim = "copy2" /\ IsUnder(e.args[2], efis_dir)))
    \/ e.prim = "mkdir" /\ e.args[1] = zfs_list_cache_dir
    \/ IsCacheFile(e)
    \/ IsZfs(e, "list") \/ IsZfs(e, "snapshot") \/ IsZfs(e, "allow")
    \/ IsZpool(e, "export")
    \/ (IsZpool(e, "set") /\ ~IsSetBootfs(e))
    \/ (IsRunOf(e, {"rpm"}) /\ HasArg(e, <<"--query">>))
    \/ IsRunOf(e, {"systemd-firstboot", "systemctl", "fixfiles", "kernel-install",
                   "useradd", "passwd", "restorecon", "umount"})

\* C23: before write_zfs_mount_generator_cache has read the script nothing
\* of the cache step or of a later step is logged.  When the script it read
\* is absent or has no PROPS definition with a non-empty value, the function
\* has raised, the run has stopped at it with nothing left to run, and the
\* log holds no creation of the cache directory, no zfs list, no cache file
\* and no record of a later step (copy of the host id or of a key file,
\* first-boot configuration, entry of the isolated root, snapshot, unmount,
\* export).  When the script is usable, the cache files logged are those of
\* the pools in pool order, each named after its pool, each right after the
\* zfs list of that pool, and there is one per pool once the function has
\* returned.
C23_UnusableScriptStopsTheRun ==
    \A caches \in {Logged(IsCacheFile)} :
        /\ (~zfs_properties_text.read \/ ScriptUnusable) =>
              \A k \in 1..Len(log) : ~IsCacheStepOrLater(log[k])
        /\ (zfs_properties_text.read /\ ScriptUnusable) =>
              /\ pc = "write_zfs_mount_generator_cache"
              /\ exc # "none"
              /\ pending = <<>>
              /\ effects = SelectSeq(effects, LAMBDA e : ~IsCacheStepOrLater(e))
        /\ Len(caches) <= Len(CONFIG_POOLS)
        /\ \A c \in 1..Len(caches) :
              /\ caches[c].args[1] = zfs_list_cache_dir \o <<"/", CONFIG_POOLS[c].name>>
              /\ caches[c].fn = "write_zfs_mount_generator_cache"
        /\ \A k \in 1..Len(log) :
              IsCacheFile(log[k]) =>
                  \E j \in 1..(k - 1) :
                      /\ IsZfs(log[j], "list")
                      /\ <<"/">> \o LastArg(log[j])
                            = SubSeq(log[k].args[1], Len(zfs_list_cache_dir) + 1,
                                     Len(log[k].args[1]))
                      /\ \A m \in (j + 1)..(k - 1) : log[m].prim = "#>"
        /\ Returned("write_zfs_mount_generator_cache") =>
              /\ ~ScriptUnusable
              /\ Len(caches) = Len(CONFIG_POOLS)

\* a run that has read a script whose PROPS definition is empty, after the
\* packages were installed and the dracut configuration written
C23_Witness ==
    /\ zfs_properties_text.read
    /\ zfs_properties_text.exists
    /\ \E i \in 1..Len(zfs_properties_text.lines) :
          zfs_properties_text.lines[i] = <<"PROPS=\"", "\"">>
    /\ ~CONFIG.dry_mode
    /\ Len(CONFIG.data_pools) >= 1
    /\ Aborted
    /\ Len(DracutLog) = 1
    /\ \E k \in 1..Len(effects) : IsRunOf(effects[k], {"dnf"})

\* ------------------------------------------------------------------------
\* C24
\* ------------------------------------------------------------------------
ConfiguratorStatements ==
    {"write_crypttab", "write_fstab", "write_dracut_zfs_conf",
     "write_zfs_mount_generator_cache"}

\* C24: every record logged by write_crypttab, write_fstab,
\* write_dracut_zfs_conf and write_zfs_mount_generator_cache, the statements
\* of main() between install_packages and the copy of the host id, is a file
\* write: none of them runs a program, with or without its output captured,
\* and none creates a directory; in live mode the operations they perform
\* are file writes only.
C24_ConfiguratorWritesFilesOnly ==
    /\ \A k \in 1..Len(log) :
          log[k].fn \in ConfiguratorStatements => log[k].prim = "cat_to_file"
    /\ \A k \in 1..Len(effects) :
          effects[k].fn \in ConfiguratorStatements => effects[k].prim = "cat_to_file"

====
